---- MODULE Spec2Model ----
(***************************************************************************)
(* Model of the inference-worker orchestration core of the in-browser      *)
(* chatbot: the ModelManager (coordinator) of frontend/js/model-manager.js *)
(* and the worker script WORKER_CODE it starts, talking by postMessage.    *)
(*                                                                         *)
(* The coordinator is single threaded: every API call and every handled    *)
(* worker event is one atomic step.  A worker is single threaded too: one  *)
(* received command, one produced token, one engine outcome is a step.     *)
(* Messages travel in FIFO order in both directions.                       *)
(***************************************************************************)
EXTENDS Integers, Sequences, FiniteSets, TLC

\* ------------------------------------------------------------------ bounds
MaxOps == 3         \* stimuli from outside: API calls and Worker error events
MaxCallOps == 4     \* the same, in runs where loading meets no incident
MaxAppOps == 3      \* the same, counted in actions of the application's user
MaxTokens == 2      \* tokens the engine streams in one generation
MaxDualTokens == 1  \* the same, in runs that compare two models
MaxIncidentOps == 5 \* stimuli of a run in which workers fail while loading
MaxStopOps == 4     \* stimuli of a run in which the user stops a comparison
MaxMsgs == 3        \* messages in a conversation-shaped engine result
MaxInitOps == 2     \* init commands one worker is sent
MaxProgress == 1    \* progress events of one download

ModelIds == {"m1", "m2"}     \* the models of a comparison
Primary == {"m1"}            \* the model of runs that use a single one
Workers == 1..MaxOps     \* at most one Worker per initModel call
Inits == 1..MaxOps
Calls == 1..(IF MaxCallOps > MaxOps THEN MaxCallOps ELSE MaxOps)
Attempts == 1..MaxAppOps    \* calls of generateSingleResponse
Slots == 1..MaxAppOps       \* streaming message elements

\* n copies of a block of text, back to back
RECURSIVE Repeat(_, _)
Repeat(block, n) == IF n = 0 THEN <<>> ELSE block \o Repeat(block, n - 1)

\* the texts the engine streams: an ordinary token, and a chunk that repeats
\* a four-character block six times
Token == <<"o", "k">>
LoopToken == Repeat(<<"a", "b", "c", "d">>, 6)
Tokens == {Token, LoopToken}

VARIABLES
    workers,        \* this.workers: model id -> Worker (0: no entry)
    readyModels,    \* this.readyModels
    loadingModels,  \* this.loadingModels
    callbacks,      \* this.callbacks: model id -> callback set
    inits,          \* the promise of every initModel call
    calls,          \* the promise and callback log of every generate call
    rt,             \* the Worker objects and the script state inside each
    inbox,          \* commands posted to each worker, not yet received
    emitted,        \* every event each worker has posted, in order
    handled,        \* how many of them the coordinator has dispatched
    ops,            \* stimuli from outside the run may still take
    last,           \* what the latest coordinator step did (observation)
    probe,          \* a text handed to isRepetitive, and what it returned
    app             \* the application: its state object, its generation
                    \* attempts, its output slots and its message store

vars == <<workers, readyModels, loadingModels, callbacks, inits, calls,
          rt, inbox, emitted, handled, ops, last, probe, app>>

\* what the ModelManager and its workers never touch
outside == <<probe, app>>

registry == <<workers, readyModels, loadingModels, callbacks>>

\* ------------------------------------------------------------ record shapes
Ev(type, call, tok, text, msg) ==
    [type |-> type, call |-> call, tok |-> tok, text |-> text, msg |-> msg]

Msg(type, model, call, idle) ==
    [type |-> type, model |-> model, call |-> call, idle |-> idle]

Obs(op, id, hook, cb, rej, threw) ==
    [op |-> op, id |-> id, hook |-> hook, cb |-> cb, rej |-> rej, threw |-> threw]

Quiet == Obs("none", "", "none", FALSE, FALSE, FALSE)

NoCallbacks == [has |-> FALSE, init |-> 0, gen |-> 0]

NoInit == [id |-> "", kind |-> "unused", st |-> "unused", why |-> "", main |-> 0]

NoCall == [id |-> "", st |-> "unused", val |-> <<>>, posted |-> FALSE, w |-> 0,
           log |-> <<>>, overlap |-> FALSE, cbFirst |-> FALSE]

NoWorker == [st |-> "none", model |-> "", owner |-> 0, loading |-> FALSE,
             generator |-> FALSE, currentModel |-> "", isGenerating |-> FALSE,
             shouldAbort |-> FALSE, cur |-> 0, fullResponse |-> <<>>, sent |-> 0,
             idleAbort |-> FALSE, sawIdleAbort |-> FALSE, spurious |-> FALSE,
             pipeline |-> FALSE, runs |-> <<>>, gpu |-> FALSE]

Terminal == {"complete", "aborted", "error"}

\* this.onError?.(...) and the like
Hook(name) ==
    LET
        \* the global callbacks the application installs before any model is loaded
        Hooks == {"onProgress", "onStatusChange", "onModelReady", "onError"}
    IN
              IF name \in Hooks THEN name ELSE "none"

NoProbe == [text |-> <<>>, st |-> "none", flagged |-> FALSE]

\* one call of generateSingleResponse: its arguments, its closure variables
\* and how it ended (report: "none" while it runs, "ok" when it returned
\* without an error, else the error message shown); role is the place of
\* the call in its caller: "single", "retry", "first" and "second" of a
\* comparison on one model (other: the second's slot), "left" and "right" of
\* a comparison of two models (other: the attempt at the other side)
NoAttempt == [st |-> "unused", id |-> "", slot |-> 0, history |-> 0, call |-> 0,
              timer |-> FALSE, timedOut |-> FALSE, repetitionDetected |-> FALSE,
              aborts |-> 0, late |-> FALSE, tripped |-> <<>>, report |-> "none",
              retryOf |-> 0, role |-> "single", other |-> 0, conv |-> 0]

\* const state = {...} with no model loaded, and an empty message store
NoApp ==
    LET
        \* one streaming message element: what its bubble shows, and the attempt
        \* whose retry button it carries (0: none)
        NoSlot == [st |-> "none", text |-> <<>>, retry |-> 0]
    IN
         [currentModel |-> "", compareModel |-> "", compareMode |-> FALSE,
          target |-> [i \in Inits |-> "none"], isGenerating |-> FALSE,
          att |-> [a \in Attempts |-> NoAttempt],
          slots |-> [k \in Slots |-> NoSlot],
          saving |-> <<>>, store |-> <<>>, sends |-> 0, stops |-> 0,
          currentConversationId |-> 0, conversations |-> 0]

\* new ModelManager(): empty registry, no worker, no call made
Constructed ==
    /\ workers = [id \in ModelIds |-> 0]
    /\ readyModels = {}
    /\ loadingModels = {}
    /\ callbacks = [id \in ModelIds |-> NoCallbacks]
    /\ inits = [i \in Inits |-> NoInit]
    /\ calls = [c \in Calls |-> NoCall]
    /\ rt = [w \in Workers |-> NoWorker]
    /\ inbox = [w \in Workers |-> <<>>]
    /\ emitted = [w \in Workers |-> <<>>]
    /\ handled = [w \in Workers |-> 0]
    /\ last = Quiet

Init ==
    /\ Constructed
    /\ ops = MaxOps
    /\ probe = NoProbe
    /\ app = NoApp


\* ----------------------------------------------------------------- helpers
\* one more call of the API, or one more error event of a Worker object
Stimulus == ops > 0 /\ ops' = ops - 1

Last(s) == s[Len(s)]

FreshInit(i) ==
    /\ inits[i].kind = "unused"
    /\ \A j \in Inits : j < i => inits[j].kind # "unused"

FreshCall(c) ==
    /\ calls[c].st = "unused"
    /\ \A d \in Calls : d < c => calls[d].st # "unused"

FreshWorker(w) ==
    /\ rt[w].st = "none"
    /\ \A v \in Workers : v < w => rt[v].st # "none"

\* resolve()/reject() of a promise: only the first settlement counts
SettleInit(I, i, st, why) ==
    IF i # 0 /\ I[i].st = "pending"
    THEN [I EXCEPT ![i].st = st, ![i].why = why]
    ELSE I

SettleCall(C, c, st, val) ==
    IF C[c].st = "pending"
    THEN [C EXCEPT ![c].st = st, ![c].val = val,
                   ![c].cbFirst = (C[c].log # <<>> /\ Last(C[c].log).type \in Terminal)]
    ELSE C

\* the events of command c that the coordinator has dispatched so far
Arrived(c) ==
    LET w == calls[c].w
        F(e) == e.call = c
    IN IF w = 0 THEN <<>> ELSE SelectSeq(SubSeq(emitted[w], 1, handled[w]), F)

TerminalHandled(c) == \E k \in 1..Len(Arrived(c)) : Arrived(c)[k].type \in Terminal

\* generate call c was posted and its outcome has not reached the coordinator
InFlight(c) ==
    /\ calls[c].posted
    /\ rt[calls[c].w].st = "live"
    /\ ~TerminalHandled(c)

\* the worker runs no generation and has none waiting in its queue
Idle(w) ==
    /\ ~rt[w].isGenerating
    /\ rt[w].cur = 0
    /\ \A k \in 1..Len(inbox[w]) : inbox[w][k].type # "generate"

\* the initModel call whose load of id is still pending (0: none)
PendingLoad(id) ==
    LET P == {i \in Inits : inits[i].kind = "main" /\ inits[i].id = id
                               /\ inits[i].st = "pending"}
    IN IF P = {} THEN 0 ELSE CHOOSE i \in P : \A j \in P : j <= i

\* ------------------------------------------------- ModelManager.initModel
\* "Already ready": the hook is called and the promise resolves at once
InitModelReady(id) ==
    /\ Stimulus
    /\ id \in readyModels
    /\ \E i \in Inits :
        /\ FreshInit(i)
        /\ inits' = [inits EXCEPT ![i] =
                        [id |-> id, kind |-> "ready", st |-> "resolved", why |-> "", main |-> 0]]
    /\ last' = Quiet
    /\ UNCHANGED <<registry, calls, rt, inbox, emitted, handled, outside>>

\* "Already loading": a promise settled later by the 100 ms poll
InitModelLoading(id) ==
    /\ Stimulus
    /\ id \notin readyModels
    /\ id \in loadingModels
    /\ \E i \in Inits :
        /\ FreshInit(i)
        /\ inits' = [inits EXCEPT ![i] =
                        [id |-> id, kind |-> "poll", st |-> "pending", why |-> "",
                         main |-> PendingLoad(id)]]
    /\ last' = Quiet
    /\ UNCHANGED <<registry, calls, rt, inbox, emitted, handled, outside>>

\* createWorker() succeeds: the worker is registered and its handlers wired
InitModelCreate(id) ==
    /\ Stimulus
    /\ id \notin readyModels
    /\ id \notin loadingModels
    /\ \E i \in Inits, w \in Workers :
        /\ FreshInit(i)
        /\ FreshWorker(w)
        /\ inits' = [inits EXCEPT ![i] =
                        [id |-> id, kind |-> "main", st |-> "pending", why |-> "", main |-> 0]]
        /\ rt' = [rt EXCEPT ![w] =
                        [NoWorker EXCEPT !.st = "booting", !.model = id, !.owner = i]]
        /\ workers' = [workers EXCEPT ![id] = w]
        /\ callbacks' = [callbacks EXCEPT ![id] = [has |-> TRUE, init |-> i, gen |-> 0]]
    /\ loadingModels' = loadingModels \cup {id}
    /\ last' = Quiet
    /\ UNCHANGED <<readyModels, calls, inbox, emitted, handled, outside>>

\* createWorker() throws: loadingModels.add is undone and the promise rejects
InitModelCreateFails(id) ==
    /\ Stimulus
    /\ id \notin readyModels
    /\ id \notin loadingModels
    /\ \E i \in Inits :
        /\ FreshInit(i)
        /\ inits' = [inits EXCEPT ![i] =
                        [id |-> id, kind |-> "main", st |-> "rejected", why |-> "create",
                         main |-> 0]]
    /\ loadingModels' = (loadingModels \cup {id}) \ {id}
    /\ last' = Quiet
    /\ UNCHANGED <<workers, readyModels, callbacks, calls, rt, inbox, emitted,
                   handled, outside>>

\* the setInterval callback of an "already loading" promise
PollTick(i) ==
    /\ inits[i].kind = "poll"
    /\ inits[i].st = "pending"
    /\ \/ /\ inits[i].id \in readyModels
          /\ inits' = SettleInit(inits, i, "resolved", "")
       \/ /\ inits[i].id \notin readyModels
          /\ inits[i].id \notin loadingModels
          /\ inits' = SettleInit(inits, i, "rejected", "Model loading failed")
    /\ last' = Quiet
    /\ UNCHANGED <<registry, calls, rt, inbox, emitted, handled, ops, outside>>

\* ------------------------------------------------- ModelManager.generate
\* mutant: the readiness check of generate() is missing
GenerateGateNoReadyCheck(id) ==
    IF workers[id] = 0 THEN "not initialized" ELSE "ok"

GenerateGate(id) ==
    IF workers[id] = 0 THEN "not initialized"
    ELSE IF id \notin readyModels THEN "not ready"
    ELSE "ok"

\* the body of generate() for the call with promise c
GenerateCall(id, c) ==
    LET gate == GenerateGate(id)
        busy == \E d \in Calls : calls[d].id = id /\ InFlight(d)
    IN IF gate # "ok"
       THEN /\ calls' = [calls EXCEPT ![c] =
                           [NoCall EXCEPT !.id = id, !.st = "rejected",
                                          !.val = <<gate>>, !.overlap = busy]]
            /\ UNCHANGED <<callbacks, inbox>>
       ELSE /\ calls' = [calls EXCEPT ![c] =
                           [NoCall EXCEPT !.id = id, !.st = "pending",
                                          !.posted = TRUE, !.w = workers[id],
                                          !.overlap = busy]]
            /\ callbacks' = [callbacks EXCEPT ![id] =
                           [@ EXCEPT !.has = TRUE, !.gen = c]]
            /\ inbox' = [inbox EXCEPT ![workers[id]] =
                           Append(@, Msg("generate", id, c, FALSE))]

Generate(id) ==
    \E c \in Calls :
        /\ FreshCall(c)
        /\ GenerateCall(id, c)
        /\ Stimulus
        /\ last' = Quiet
        /\ UNCHANGED <<workers, readyModels, loadingModels, inits, rt, emitted,
                       handled, outside>>

\* ---------------------------------------------------- ModelManager.abort
\* the inbox of id's worker, if it has one, with an abort command added
WithAbort(box, id) ==
    IF workers[id] # 0
    THEN [box EXCEPT ![workers[id]] = Append(@, Msg("abort", id, 0, Idle(workers[id])))]
    ELSE box

Abort(id) ==
    /\ Stimulus
    /\ inbox' = WithAbort(inbox, id)
    /\ last' = Obs("abort", id, "none", FALSE, FALSE, FALSE)
    /\ UNCHANGED <<registry, inits, calls, rt, emitted, handled, outside>>

\* ----------------------------------------------- ModelManager.unloadModel
\* worker.terminate() stops the script and discards the messages of both
\* directions, so the 'unload' command posted just before has no effect
\* mutant: unloadModel clears the bookkeeping without looking for a handle
UnloadModelUnchecked(id) ==
    /\ Stimulus
    /\ IF workers[id] # 0
       THEN /\ rt' = [rt EXCEPT ![workers[id]] = [NoWorker EXCEPT !.st = "terminated"]]
            /\ inbox' = [inbox EXCEPT ![workers[id]] = <<>>]
            /\ emitted' = [emitted EXCEPT ![workers[id]] = <<>>]
            /\ handled' = [handled EXCEPT ![workers[id]] = 0]
       ELSE UNCHANGED <<rt, inbox, emitted, handled>>
    /\ workers' = [workers EXCEPT ![id] = 0]
    /\ readyModels' = readyModels \ {id}
    /\ callbacks' = [callbacks EXCEPT ![id] = NoCallbacks]
    /\ last' = Obs(IF workers[id] # 0 THEN "unload" ELSE "unload without handle",
                   id, "none", FALSE, FALSE, FALSE)
    /\ UNCHANGED <<loadingModels, inits, calls, outside>>

UnloadModel(id) ==
    /\ Stimulus
    /\ IF workers[id] # 0
       THEN /\ rt' = [rt EXCEPT ![workers[id]] = [NoWorker EXCEPT !.st = "terminated"]]
            /\ inbox' = [inbox EXCEPT ![workers[id]] = <<>>]
            /\ emitted' = [emitted EXCEPT ![workers[id]] = <<>>]
            /\ handled' = [handled EXCEPT ![workers[id]] = 0]
            /\ workers' = [workers EXCEPT ![id] = 0]
            /\ readyModels' = readyModels \ {id}
            /\ callbacks' = [callbacks EXCEPT ![id] = NoCallbacks]
       ELSE UNCHANGED <<rt, inbox, emitted, handled, workers, readyModels, callbacks>>
    /\ last' = Obs(IF workers[id] # 0 THEN "unload" ELSE "unload without handle",
                   id, "none", FALSE, FALSE, FALSE)
    /\ UNCHANGED <<loadingModels, inits, calls, outside>>

\* ------------------------------------------------- ModelManager.unloadAll
\* unloadModel for every key of this.workers
UnloadAll ==
    LET held == {id \in ModelIds : workers[id] # 0}
        gone == {workers[id] : id \in held}
    IN /\ Stimulus
       /\ rt' = [w \in Workers |->
                    IF w \in gone THEN [NoWorker EXCEPT !.st = "terminated"] ELSE rt[w]]
       /\ inbox' = [w \in Workers |-> IF w \in gone THEN <<>> ELSE inbox[w]]
       /\ emitted' = [w \in Workers |-> IF w \in gone THEN <<>> ELSE emitted[w]]
       /\ handled' = [w \in Workers |-> IF w \in gone THEN 0 ELSE handled[w]]
       /\ workers' = [id \in ModelIds |-> 0]
       /\ readyModels' = readyModels \ held
       /\ callbacks' = [id \in ModelIds |-> IF id \in held THEN NoCallbacks
                                            ELSE callbacks[id]]
       /\ last' = Obs(IF held # {} THEN "unloadAll" ELSE "unloadAll without handle",
                      "", "none", FALSE, FALSE, FALSE)
       /\ UNCHANGED <<loadingModels, inits, calls, outside>>

\* ------------------------------------------------------ the worker script
Emit(w, ev) == emitted' = [emitted EXCEPT ![w] = Append(@, ev)]

\* the script's last line: send('worker-ready', {})
WorkerStart(w) ==
    /\ rt[w].st = "booting"
    /\ rt' = [rt EXCEPT ![w].st = "live"]
    /\ Emit(w, Ev("worker-ready", 0, <<>>, <<>>, ""))
    /\ last' = Quiet
    /\ UNCHANGED <<registry, inits, calls, inbox, handled, ops, outside>>

Receives(w, type) ==
    /\ rt[w].st = "live"
    /\ inbox[w] # <<>>
    /\ Head(inbox[w]).type = type
    /\ inbox' = [inbox EXCEPT ![w] = Tail(@)]

\* case 'init': initModel(data.model) up to its first real wait
WorkerOnInit(w) ==
    /\ Receives(w, "init")
    /\ IF rt[w].generator /\ rt[w].currentModel = Head(inbox[w]).model
       THEN /\ Emit(w, Ev("ready", 0, <<>>, <<>>, ""))
            /\ UNCHANGED rt
       ELSE /\ rt' = [rt EXCEPT ![w].loading = TRUE]
            /\ UNCHANGED emitted
    /\ last' = Quiet
    /\ UNCHANGED <<registry, inits, calls, handled, ops, outside>>

\* generator = await pipeline(...) returns: the model is resident
WorkerLoaded(w) ==
    /\ rt[w].st = "live"
    /\ rt[w].loading
    /\ rt' = [rt EXCEPT ![w].loading = FALSE, ![w].generator = TRUE,
                        ![w].currentModel = rt[w].model]
    /\ Emit(w, Ev("ready", 0, <<>>, <<>>, ""))
    /\ last' = Quiet
    /\ UNCHANGED <<registry, inits, calls, inbox, handled, ops, outside>>

\* the import or the pipeline throws: initModel's catch
WorkerLoadFails(w) ==
    /\ rt[w].st = "live"
    /\ rt[w].loading
    /\ rt' = [rt EXCEPT ![w].loading = FALSE]
    /\ Emit(w, Ev("error", 0, <<>>, <<>>, "Failed to load model"))
    /\ last' = Quiet
    /\ UNCHANGED <<registry, inits, calls, inbox, handled, ops, outside>>

\* mutant: generate() does not reset shouldAbort when it starts
StartGenerationKeepsAbort(r, c) ==
    [r EXCEPT !.isGenerating = TRUE, !.cur = c, !.fullResponse = <<>>, !.sent = 0]

\* generate(): isGenerating = true; shouldAbort = false
StartGeneration(r, c) ==
    [r EXCEPT !.isGenerating = TRUE, !.shouldAbort = FALSE, !.idleAbort = FALSE,
              !.cur = c, !.fullResponse = <<>>, !.sent = 0]

\* mutant: the worker's generate() has no isGenerating guard
WorkerOnGenerateNoBusyCheck(w) ==
    /\ Receives(w, "generate")
    /\ LET c == Head(inbox[w]).call
       IN IF ~rt[w].generator
          THEN /\ Emit(w, Ev("error", c, <<>>, <<>>, "No model loaded"))
               /\ UNCHANGED rt
          ELSE /\ rt' = [rt EXCEPT ![w] = StartGeneration(@, c)]
               /\ Emit(w, Ev("generating", c, <<>>, <<>>, ""))
    /\ last' = Quiet
    /\ UNCHANGED <<registry, inits, calls, handled, ops, outside>>

\* case 'generate': the two guards, then the generation starts
WorkerOnGenerate(w) ==
    /\ Receives(w, "generate")
    /\ LET c == Head(inbox[w]).call
       IN IF ~rt[w].generator
          THEN /\ Emit(w, Ev("error", c, <<>>, <<>>, "No model loaded"))
               /\ UNCHANGED rt
          ELSE IF rt[w].isGenerating
          THEN /\ Emit(w, Ev("error", c, <<>>, <<>>, "Already generating"))
               /\ UNCHANGED rt
          ELSE /\ rt' = [rt EXCEPT ![w] = StartGeneration(@, c)]
               /\ Emit(w, Ev("generating", c, <<>>, <<>>, ""))
    /\ last' = Quiet
    /\ UNCHANGED <<registry, inits, calls, handled, ops, outside>>

\* case 'abort': shouldAbort = true
WorkerOnAbort(w) ==
    /\ Receives(w, "abort")
    /\ rt' = [rt EXCEPT ![w].shouldAbort = TRUE,
                        ![w].idleAbort = IF rt[w].shouldAbort THEN @
                                         ELSE Head(inbox[w]).idle,
                        ![w].sawIdleAbort = @ \/ Head(inbox[w]).idle]
    /\ last' = Quiet
    /\ UNCHANGED <<registry, inits, calls, emitted, handled, ops, outside>>

\* mutant: the finally block does not reset isGenerating
FinallyKeepsFlag(r) ==
    [r EXCEPT !.shouldAbort = FALSE, !.idleAbort = FALSE,
              !.cur = 0, !.fullResponse = <<>>, !.sent = 0]

\* finally { isGenerating = false; shouldAbort = false } and the call returns
Finally(r) ==
    [r EXCEPT !.isGenerating = FALSE, !.shouldAbort = FALSE, !.idleAbort = FALSE,
              !.cur = 0, !.fullResponse = <<>>, !.sent = 0]

\* mutant: the callback reports 'aborted' itself and lets the engine run on
StreamTokenKeepsRunning(w, token) ==
    /\ rt[w].st = "live"
    /\ rt[w].cur # 0
    /\ rt[w].sent < MaxTokens
    /\ IF rt[w].shouldAbort
       THEN /\ Emit(w, Ev("aborted", rt[w].cur, <<>>, <<>>, ""))
            /\ rt' = [rt EXCEPT ![w].shouldAbort = FALSE]
       ELSE /\ rt' = [rt EXCEPT ![w].fullResponse = @ \o token, ![w].sent = @ + 1]
            /\ Emit(w, Ev("token", rt[w].cur, token, rt'[w].fullResponse, ""))
    /\ last' = Quiet
    /\ UNCHANGED <<registry, inits, calls, inbox, handled, ops, outside>>

\* mutant: the callback sends the token as the accumulated text
StreamTokenRestartsText(w, token) ==
    /\ rt[w].st = "live"
    /\ rt[w].cur # 0
    /\ rt[w].sent < MaxTokens
    /\ IF rt[w].shouldAbort
       THEN /\ Emit(w, Ev("aborted", rt[w].cur, <<>>, <<>>, ""))
            /\ rt' = [rt EXCEPT ![w] =
                        [Finally(@) EXCEPT !.spurious = @ \/ rt[w].idleAbort]]
       ELSE /\ rt' = [rt EXCEPT ![w].fullResponse = token, ![w].sent = @ + 1]
            /\ Emit(w, Ev("token", rt[w].cur, token, rt'[w].fullResponse, ""))
    /\ last' = Quiet
    /\ UNCHANGED <<registry, inits, calls, inbox, handled, ops, outside>>

\* the streamer's callback_function at one new token: it throws 'Aborted'
\* when the flag is set (caught at once: 'aborted'), else it sends the token
StreamToken(w, token) ==
    /\ rt[w].st = "live"
    /\ rt[w].cur # 0
    /\ rt[w].sent < MaxTokens
    /\ IF rt[w].shouldAbort
       THEN /\ Emit(w, Ev("aborted", rt[w].cur, <<>>, <<>>, ""))
            /\ rt' = [rt EXCEPT ![w] =
                        [Finally(@) EXCEPT !.spurious = @ \/ rt[w].idleAbort]]
       ELSE /\ rt' = [rt EXCEPT ![w].fullResponse = @ \o token, ![w].sent = @ + 1]
            /\ Emit(w, Ev("token", rt[w].cur, token, rt'[w].fullResponse, ""))
    /\ last' = Quiet
    /\ UNCHANGED <<registry, inits, calls, inbox, handled, ops, outside>>

\* the engine's result as the worker looks at it: result[0] missing
\* ("none"), result[0].generated_text a string ("text") or an array of
\* messages ("list")
TextResult == [shape |-> "text", msgs |-> <<>>]

ListResult(msgs) == [shape |-> "list", msgs |-> msgs]

\* for (i = msgs.length - 1; i >= 0; i--) if (msgs[i].role === 'assistant'):
\* the index the backward scan stops at (0: it runs off the front)
RECURSIVE ScanBack(_, _)
ScanBack(msgs, i) ==
    IF i = 0 THEN 0
    ELSE IF msgs[i].role = "assistant" THEN i
    ELSE ScanBack(msgs, i - 1)

\* mutant: the scan runs forward and takes the first assistant entry
RecoverContentFirst(result, fullResponse) ==
    LET A == {n \in 1..Len(result.msgs) : result.msgs[n].role = "assistant"}
    IN IF result.shape = "list" /\ A # {}
       THEN result.msgs[CHOOSE n \in A : \A m \in A : n <= m].content
       ELSE fullResponse

\* var content = fullResponse; ... content = msgs[i].content
RecoverContent(result, fullResponse) ==
    IF result.shape # "list" THEN fullResponse
    ELSE LET i == ScanBack(result.msgs, Len(result.msgs))
         IN IF i = 0 THEN fullResponse ELSE result.msgs[i].content

\* content = fullResponse, or the result's last assistant entry
FinalContent(r, conversation) ==
    LET
        AssistantText == <<"assistant">>    \* content of the result's assistant entry
    IN
    RecoverContent(IF conversation
                   THEN ListResult(<<[role |-> "user", content |-> <<"hi">>],
                                     [role |-> "assistant", content |-> AssistantText]>>)
                   ELSE TextResult,
                   r.fullResponse)

\* await generator(...) returns a result: 'complete'
EngineResolves(w) ==
    /\ rt[w].st = "live"
    /\ rt[w].cur # 0
    /\ \E conversation \in BOOLEAN :
          Emit(w, Ev("complete", rt[w].cur, <<>>, FinalContent(rt[w], conversation), ""))
    /\ rt' = [rt EXCEPT ![w] = Finally(@)]
    /\ last' = Quiet
    /\ UNCHANGED <<registry, inits, calls, inbox, handled, ops, outside>>

\* await generator(...) throws something else than 'Aborted': 'error'
EngineRejects(w) ==
    /\ rt[w].st = "live"
    /\ rt[w].cur # 0
    /\ Emit(w, Ev("error", rt[w].cur, <<>>, <<>>, "engine failure"))
    /\ rt' = [rt EXCEPT ![w] = Finally(@)]
    /\ last' = Quiet
    /\ UNCHANGED <<registry, inits, calls, inbox, handled, ops, outside>>

\* mutant: an error leaves the loading bookkeeping alone
ErrorKeepsLoading(id) == loadingModels

\* this.loadingModels.delete(modelId) of both error handlers
ErrorClearsLoading(id) == loadingModels \ {id}

\* --------------------------------------- the Worker object's error event
\* worker.onerror: a script that fails to start is dead; a running script
\* that lets an exception escape keeps running
WorkerOnError(w) ==
    /\ Stimulus
    /\ rt[w].st \in {"booting", "live"}
    /\ rt' = [rt EXCEPT ![w].st = IF @ = "booting" THEN "dead" ELSE @]
    /\ loadingModels' = ErrorClearsLoading(rt[w].model)
    /\ workers' = [workers EXCEPT ![rt[w].model] = 0]
    /\ inits' = SettleInit(inits, rt[w].owner, "rejected", "Worker failed to load")
    /\ last' = Obs("onerror", rt[w].model, Hook("onError"), FALSE,
                   inits[rt[w].owner].st = "pending", FALSE)
    /\ UNCHANGED <<readyModels, callbacks, calls, inbox, emitted, handled, outside>>


\* ------------------------------------- ModelManager.handleWorkerMessage
NextEvent(w) == emitted[w][handled[w] + 1]

\* worker.onmessage fires for the next posted event of a worker that was
\* not terminated, registered or not: handleWorkerMessage(modelId, data)
Dispatches(w, type) ==
    /\ rt[w].st = "live"
    /\ handled[w] < Len(emitted[w])
    /\ NextEvent(w).type = type
    /\ handled' = [handled EXCEPT ![w] = @ + 1]

\* callbacks.onGenerating / onToken of generate(): the caller's callback
Deliver(C, c, ev) == [C EXCEPT ![c].log = Append(@, ev)]

\* callbacks.onComplete / onAborted / onError of generate(): the caller's
\* callback first, then the promise
DeliverAndSettle(C, c, ev, st, val) == SettleCall(Deliver(C, c, ev), c, st, val)

Null == <<"null">>

\* case 'worker-ready': init goes to the worker registered under modelId
HandleWorkerReady(w) ==
    /\ Dispatches(w, "worker-ready")
    /\ LET id == rt[w].model
       IN IF workers[id] # 0
          THEN inbox' = [inbox EXCEPT ![workers[id]] = Append(@, Msg("init", id, 0, FALSE))]
          ELSE UNCHANGED inbox
    /\ last' = Quiet
    /\ UNCHANGED <<registry, inits, calls, rt, emitted, ops, outside>>

\* case 'ready'
\* mutant: case 'ready' forgets loadingModels.delete
HandleReadyKeepsLoading(w) ==
    /\ Dispatches(w, "ready")
    /\ LET id == rt[w].model
       IN /\ loadingModels' = loadingModels
          /\ readyModels' = readyModels \cup {id}
          /\ inits' = SettleInit(inits, callbacks[id].init, "resolved", "")
          /\ last' = Quiet
    /\ UNCHANGED <<workers, callbacks, calls, rt, inbox, emitted, ops, outside>>

HandleReady(w) ==
    /\ Dispatches(w, "ready")
    /\ LET id == rt[w].model
       IN /\ loadingModels' = loadingModels \ {id}
          /\ readyModels' = readyModels \cup {id}
          /\ inits' = SettleInit(inits, callbacks[id].init, "resolved", "")
          /\ last' = Quiet
    /\ UNCHANGED <<workers, callbacks, calls, rt, inbox, emitted, ops, outside>>

\* case 'generating'
HandleGenerating(w) ==
    /\ Dispatches(w, "generating")
    /\ LET id == rt[w].model
           c == callbacks[id].gen
       IN /\ calls' = IF c # 0 THEN Deliver(calls, c, NextEvent(w)) ELSE calls
          /\ last' = Quiet
    /\ UNCHANGED <<registry, inits, rt, inbox, emitted, ops, outside>>

\* case 'token'
HandleToken(w) ==
    /\ Dispatches(w, "token")
    /\ LET id == rt[w].model
           c == callbacks[id].gen
       IN /\ calls' = IF c # 0 THEN Deliver(calls, c, NextEvent(w)) ELSE calls
          /\ last' = Quiet
    /\ UNCHANGED <<registry, inits, rt, inbox, emitted, ops, outside>>

\* case 'complete'
HandleComplete(w) ==
    /\ Dispatches(w, "complete")
    /\ LET id == rt[w].model
           c == callbacks[id].gen
           ev == NextEvent(w)
       IN /\ calls' = IF c # 0
                      THEN DeliverAndSettle(calls, c, ev, "resolved", ev.text)
                      ELSE calls
          /\ last' = Quiet
    /\ UNCHANGED <<registry, inits, rt, inbox, emitted, ops, outside>>

\* case 'aborted'
HandleAborted(w) ==
    /\ Dispatches(w, "aborted")
    /\ LET id == rt[w].model
           c == callbacks[id].gen
       IN /\ calls' = IF c # 0
                      THEN DeliverAndSettle(calls, c, NextEvent(w), "resolved", Null)
                      ELSE calls
          /\ last' = Quiet
    /\ UNCHANGED <<registry, inits, rt, inbox, emitted, ops, outside>>

\* case 'error'
HandleError(w) ==
    /\ Dispatches(w, "error")
    /\ LET id == rt[w].model
           c == callbacks[id].gen
           i == callbacks[id].init
           ev == NextEvent(w)
       IN /\ loadingModels' = ErrorClearsLoading(id)
          /\ calls' = IF c # 0
                      THEN DeliverAndSettle(calls, c, ev, "rejected", <<ev.msg>>)
                      ELSE calls
          /\ inits' = SettleInit(inits, i, "rejected", ev.msg)
          /\ last' = Obs("error", id, Hook("onError"), c # 0,
                         \/ (c # 0 /\ calls[c].st = "pending")
                         \/ (i # 0 /\ inits[i].st = "pending"), FALSE)
    /\ UNCHANGED <<workers, readyModels, callbacks, rt, inbox, emitted, ops, outside>>

\* ------------------------------------------------------------ the system
Next ==
    \/ \E id \in Primary : InitModelReady(id)
    \/ \E id \in Primary : InitModelLoading(id)
    \/ \E id \in Primary : InitModelCreate(id)
    \/ \E id \in Primary : InitModelCreateFails(id)
    \/ \E i \in Inits : PollTick(i)
    \/ \E id \in Primary : Generate(id)
    \/ \E id \in Primary : Abort(id)
    \/ \E id \in Primary : UnloadModel(id)
    \/ UnloadAll
    \/ \E w \in Workers : WorkerStart(w)
    \/ \E w \in Workers : WorkerOnInit(w)
    \/ \E w \in Workers : WorkerLoaded(w)
    \/ \E w \in Workers : WorkerLoadFails(w)
    \/ \E w \in Workers : WorkerOnGenerate(w)
    \/ \E w \in Workers : WorkerOnAbort(w)
    \/ \E w \in Workers : StreamToken(w, Token)
    \/ \E w \in Workers : EngineResolves(w)
    \/ \E w \in Workers : EngineRejects(w)
    \/ \E w \in Workers : WorkerOnError(w)
    \/ \E w \in Workers : HandleWorkerReady(w)
    \/ \E w \in Workers : HandleReady(w)
    \/ \E w \in Workers : HandleGenerating(w)
    \/ \E w \in Workers : HandleToken(w)
    \/ \E w \in Workers : HandleComplete(w)
    \/ \E w \in Workers : HandleAborted(w)
    \/ \E w \in Workers : HandleError(w)

Spec == Init /\ [][Next]_vars

\* ------------------------------------------- runs without load incidents
\* one model is loaded and stays loaded: no failing load, no Worker error
\* event, no unload; in exchange the run may take more API calls
CallInit ==
    /\ Constructed
    /\ ops = MaxCallOps
    /\ probe = NoProbe
    /\ app = NoApp

CallNext ==
    \/ \E id \in Primary : InitModelCreate(id)
    \/ \E id \in Primary : Generate(id)
    \/ \E id \in Primary : Abort(id)
    \/ \E w \in Workers : WorkerStart(w)
    \/ \E w \in Workers : WorkerOnInit(w)
    \/ \E w \in Workers : WorkerLoaded(w)
    \/ \E w \in Workers : WorkerOnGenerate(w)
    \/ \E w \in Workers : WorkerOnAbort(w)
    \/ \E w \in Workers : StreamToken(w, Token)
    \/ \E w \in Workers : EngineResolves(w)
    \/ \E w \in Workers : EngineRejects(w)
    \/ \E w \in Workers : HandleWorkerReady(w)
    \/ \E w \in Workers : HandleReady(w)
    \/ \E w \in Workers : HandleGenerating(w)
    \/ \E w \in Workers : HandleToken(w)
    \/ \E w \in Workers : HandleComplete(w)
    \/ \E w \in Workers : HandleAborted(w)
    \/ \E w \in Workers : HandleError(w)

CallSpec == CallInit /\ [][CallNext]_vars


\* ------------------------------------------------------ utils.isRepetitive
\* texts are sequences of characters
maxPatternLen == 50
minPatternLen == 1

\* characters String.prototype.trim removes
Whitespace == {" ", "\n", "\t"}

\* text.slice(from, to) for 0 <= from <= to
Slice(text, from, to) ==
    SubSeq(text, from + 1, IF to > Len(text) THEN Len(text) ELSE to)

\* mutant: the window is taken from the start of the text
SliceStart(text, n) == Slice(text, 0, n)

\* text.slice(-n) for 0 < n <= text.length
SliceEnd(text, n) == SubSeq(text, Len(text) - n + 1, Len(text))

\* mutant: trim() removes nothing
TrimNothing(text) == text

\* text.trim()
RECURSIVE Trim(_)
Trim(text) ==
    IF text = <<>> THEN <<>>
    ELSE IF Head(text) \in Whitespace THEN Trim(Tail(text))
    ELSE IF text[Len(text)] \in Whitespace THEN Trim(SubSeq(text, 1, Len(text) - 1))
    ELSE text

\* mutant: four-character patterns count as short
ThresholdFourIsShort(len) == IF len <= 4 THEN 25 ELSE 6

\* const threshold = len < 4 ? 25 : 6
Threshold(len) == IF len < 4 THEN 25 ELSE 6

\* the inner loop: the suffix is threshold copies of the pattern
RECURSIVE IsPattern(_, _, _, _, _)
IsPattern(suffix, pattern, len, threshold, i) ==
    IF i >= threshold THEN TRUE
    ELSE IF Slice(suffix, i * len, (i + 1) * len) # pattern THEN FALSE
    ELSE IsPattern(suffix, pattern, len, threshold, i + 1)

\* the outer loop from pattern length len on
RECURSIVE ScanFrom(_, _)
ScanFrom(text, len) ==
    IF len > maxPatternLen THEN FALSE
    ELSE LET threshold == Threshold(len)
             totalLen == len * threshold
         IN IF Len(text) < totalLen THEN ScanFrom(text, len + 1)
            ELSE LET suffix == SliceEnd(text, totalLen)
                     pattern == Slice(suffix, 0, len)
                 IN IF Len(Trim(pattern)) = 0 THEN ScanFrom(text, len + 1)
                    ELSE IF IsPattern(suffix, pattern, len, threshold, 0) THEN TRUE
                    ELSE ScanFrom(text, len + 1)

isRepetitive(text) == ScanFrom(text, minPatternLen)

\* ---- the texts isRepetitive is tried on
MaxBlock == 4       \* longest block enumerated over the alphabet
MaxRepeat == 25     \* most copies of an enumerated block

Prose ==
    <<"T", "h", "i", "s", " ", "i", "s", " ", "a", " ", "n", "o", "r", "m",
      "a", "l", " ", "s", "e", "n", "t", "e", "n", "c", "e", " ", "t", "h",
      "a", "t", " ", "d", "o", "e", "s", " ", "n", "o", "t", " ", "r", "e",
      "p", "e", "a", "t", " ", "i", "t", "s", "e", "l", "f", " ", "o", "v",
      "e", "r", " ", "a", "n", "d", " ", "o", "v", "e", "r", " ", "a", "g",
      "a", "i", "n", " ", "i", "n", " ", "a", " ", "w", "e", "i", "r", "d",
      " ", "w", "a", "y", ".">>

LoopBlock == <<"l", "o", "o", "p">>
\* a block of n characters that has no shorter period
LongBlock(n) == Repeat(<<"a">>, n - 1) \o <<"b">>

Texts ==
    LET
        Samples ==
            LET
                TestBlock == <<"t", "e", "s", "t", " ">>
            IN
            {Prose,
             Prose \o Repeat(LoopBlock, 8),
             Repeat(TestBlock, 50),
             Repeat(LongBlock(maxPatternLen), 6),
             <<"x">> \o Repeat(LongBlock(maxPatternLen), 6),
             Repeat(LongBlock(maxPatternLen + 1), 6),
             Repeat(<<"\n">>, 26),
             Repeat(<<" ", "\n">>, 30),
             Repeat(<<"\t">>, 80),
             <<>>}
    IN
    LET
        After == {<<>>, <<"y">>}
    IN
    LET
        \* what precedes and what follows the repeated block
        Before == {<<>>, <<"x">>}
    IN
    LET
        Blocks ==
            LET
                Alphabet == {"a", "b", " "}
            IN
                  UNION {[1..n -> Alphabet] : n \in 1..MaxBlock}
    IN
    Samples \cup
    {b \o Repeat(block, k) \o a :
        b \in Before, block \in Blocks, k \in 1..MaxRepeat, a \in After}

RepInit ==
    /\ Constructed
    /\ ops = 0
    /\ app = NoApp
    /\ probe \in [text : Texts, st : {"given"}, flagged : {FALSE}]

\* isRepetitive(accumulated)
CheckRepetition ==
    /\ probe.st = "given"
    /\ probe' = [probe EXCEPT !.st = "checked", !.flagged = isRepetitive(probe.text)]
    /\ UNCHANGED <<registry, inits, calls, rt, inbox, emitted, handled, ops, last,
                   app>>

RepNext == CheckRepetition

RepSpec == RepInit /\ [][RepNext]_vars

\* ------------------------------------------------ the application (app.js)
\* the messages of the two guards of generateSingleResponse
TimeoutError == "Generation timed out - model stopped responding"

RepetitionError == "Generation stopped due to repetitive output"

\* the attempt whose closures generate() registered for call c (0: none)
AttemptOf(c) ==
    LET A == {a \in Attempts : app.att[a].st # "unused" /\ app.att[a].call = c}
    IN IF c = 0 \/ A = {} THEN 0 ELSE CHOOSE a \in A : TRUE

FreshAttempt(a) ==
    /\ app.att[a].st = "unused"
    /\ \A b \in Attempts : b < a => app.att[b].st # "unused"

FreshSlot(k) ==
    /\ app.slots[k].st = "none"
    /\ \A j \in Slots : j < k => app.slots[j].st # "none"

\* the element still carries its streaming id: querySelector finds it
Streaming(S, k) == S[k].st \in {"typing", "text", "error"}

\* ui.updateMessageError: the message and a retry button bound to attempt a
ErrorShown(S, k, a) ==
    IF Streaming(S, k) THEN [S EXCEPT ![k] = [st |-> "error", text |-> <<>>, retry |-> a]]
    ELSE S

\* mutant: the comparison of two models is over when one side has ended
ReturnedFirstWins(A, a) == [A EXCEPT !.isGenerating = FALSE]

\* attempt a has returned to its caller. generateResponse and the retry
\* callback reach their finally block, except that the first attempt of a
\* comparison on one model is followed by the second, and that Promise.all
\* of a comparison of two models waits for the other side
Returned(A, a) ==
    LET att == A.att[a]
    IN IF att.role = "first" THEN A
       ELSE IF att.role \in {"left", "right"} /\ A.att[att.other].st # "ended" THEN A
       ELSE [A EXCEPT !.isGenerating = FALSE]

\* mutant: a generation that was merely stopped is reported as a failure
ConcludedStopIsFailure(A, a, msg) ==
    LET att == A.att[a]
        why == IF msg # "" THEN msg
               ELSE IF att.timedOut THEN TimeoutError
               ELSE IF att.repetitionDetected THEN RepetitionError
               ELSE IF A.stops > 0 THEN TimeoutError
               ELSE "ok"
    IN IF att.st # "running" THEN A
       ELSE IF why = "ok"
       THEN Returned([A EXCEPT !.att[a].st = "ended", !.att[a].report = "ok"], a)
       ELSE Returned([A EXCEPT !.att[a].st = "ended", !.att[a].report = why,
                               !.att[a].timer = FALSE,
                               !.slots = ErrorShown(@, att.slot, a)], a)

\* what follows "await modelManager.generate(...)" in attempt a, and the
\* finally block of its caller: the promise rejected with message msg
\* ("" when it resolved)
Concluded(A, a, msg) ==
    LET att == A.att[a]
        why == IF msg # "" THEN msg
               ELSE IF att.timedOut THEN TimeoutError
               ELSE IF att.repetitionDetected THEN RepetitionError
               ELSE "ok"
    IN IF att.st # "running" THEN A
       ELSE IF why = "ok"
       THEN Returned([A EXCEPT !.att[a].st = "ended", !.att[a].report = "ok"], a)
       ELSE Returned([A EXCEPT !.att[a].st = "ended", !.att[a].report = why,
                               !.att[a].timer = FALSE,
                               !.slots = ErrorShown(@, att.slot, a)], a)

\* generateSingleResponse(modelId, streamingId, chatHistory) up to its await,
\* as attempt a using promise c: resetTimeout(), then modelManager.generate
\* the conversation whose messages are chat history h: the current one when
\* generateResponse() reads it, kept by the later attempts on that history
HistoryOf(A, h) ==
    LET E == {b \in Attempts : A.att[b].st # "unused" /\ A.att[b].history = h}
    IN IF E = {} THEN A.currentConversationId
       ELSE A.att[CHOOSE b \in E : TRUE].conv

\* sendMessage() creates a conversation when none is current
WithConversation(A) ==
    IF A.currentConversationId # 0 THEN A
    ELSE [A EXCEPT !.conversations = @ + 1, !.currentConversationId = A.conversations + 1]

AttemptStarts(A, a, c, id, k, h, from, role, other) ==
    LET B == [A EXCEPT !.att[a] = [NoAttempt EXCEPT !.st = "running", !.id = id,
                                      !.slot = k, !.history = h, !.call = c,
                                      !.timer = TRUE, !.retryOf = from,
                                      !.role = role, !.other = other,
                                      !.conv = HistoryOf(A, h)],
                       !.isGenerating = TRUE]
        gate == GenerateGate(id)
    IN IF gate = "ok" THEN B ELSE Concluded(B, a, gate)

\* the manager's part of a generate(id) call with promise c made after the
\* calls, callback sets and queues G of this step so far; p is the call
\* whose terminal event this step has handled (0: none)
Generated(G, id, c, p) ==
    LET gate == GenerateGate(id)
        busy == \E d \in Calls \ {p} : calls[d].id = id /\ InFlight(d)
    IN IF gate # "ok"
       THEN [G EXCEPT !.calls[c] = [NoCall EXCEPT !.id = id, !.st = "rejected",
                                                  !.val = <<gate>>, !.overlap = busy]]
       ELSE [calls |-> [G.calls EXCEPT ![c] =
                           [NoCall EXCEPT !.id = id, !.st = "pending",
                                          !.posted = TRUE, !.w = workers[id],
                                          !.overlap = busy]],
             callbacks |-> [G.callbacks EXCEPT ![id] =
                           [@ EXCEPT !.has = TRUE, !.gen = c]],
             inbox |-> [G.inbox EXCEPT ![workers[id]] =
                           Append(@, Msg("generate", id, c, FALSE))]]

\* the lowest call not used in C
NextCall(C) == CHOOSE c \in Calls :
    C[c].st = "unused" /\ \A d \in Calls : d < c => C[d].st # "unused"

\* the step that handled the terminal event of call p goes on in the caller
\* of attempt a: after the first attempt of a comparison on one model,
\* generateResponse calls generateSingleResponse(state.compareModel, id2, ...)
Continues(A, C, a, p) ==
    LET
        \* the lowest attempt not used in S
        NextAttempt(S) == CHOOSE n \in Attempts :
            S.att[n].st = "unused" /\ \A b \in Attempts : b < n => S.att[b].st # "unused"
    IN
    IF a # 0 /\ app.att[a].st = "running" /\ A.att[a].st = "ended"
             /\ A.att[a].role = "first"
    THEN /\ \E b \in Attempts : A.att[b].st = "unused"
         /\ \E c \in Calls : C[c].st = "unused"
         /\ LET b == NextAttempt(A)
                c == NextCall(C)
                G == Generated([calls |-> C, callbacks |-> callbacks, inbox |-> inbox],
                               A.compareModel, c, p)
            IN /\ app' = AttemptStarts(A, b, c, A.compareModel, A.att[a].other,
                                       A.att[a].history, 0, "second", 0)
               /\ calls' = G.calls
               /\ callbacks' = G.callbacks
               /\ inbox' = G.inbox
    ELSE /\ app' = A
         /\ calls' = C
         /\ UNCHANGED <<callbacks, inbox>>

\* case 'ready' when loadModel() awaits initModel: state.currentModel is set
\* as the promise resolves
ModelLoaded(w) ==
    /\ Dispatches(w, "ready")
    /\ LET id == rt[w].model
           i == callbacks[id].init
       IN /\ loadingModels' = loadingModels \ {id}
          /\ readyModels' = readyModels \cup {id}
          /\ inits' = SettleInit(inits, i, "resolved", "")
          /\ app' = IF i # 0 /\ inits[i].st = "pending"
                    THEN [app EXCEPT !.currentModel = id]
                    ELSE app
          /\ last' = Quiet
    /\ UNCHANGED <<workers, callbacks, calls, rt, inbox, emitted, ops, probe>>

\* sendMessage and generateResponse, one model: a new streaming element and
\* the first attempt for it
\* generateResponse takes its comparison branch
CompareReady ==
    /\ app.compareMode
    /\ app.compareModel # ""
    /\ app.compareModel \in readyModels

SendMessage ==
    /\ app.currentModel # ""
    /\ app.currentModel \in readyModels
    /\ ~app.isGenerating
    /\ ~CompareReady
    /\ \E a \in Attempts, k \in Slots, c \in Calls :
        /\ FreshAttempt(a)
        /\ FreshSlot(k)
        /\ FreshCall(c)
        /\ GenerateCall(app.currentModel, c)
        /\ app' = AttemptStarts(WithConversation([app EXCEPT !.slots[k].st = "typing",
                                                             !.sends = @ + 1]),
                                a, c, app.currentModel, k, app.sends + 1, 0,
                                "single", 0)
    /\ Stimulus
    /\ last' = Quiet
    /\ UNCHANGED <<workers, readyModels, loadingModels, inits, rt, emitted,
                   handled, probe>>

\* a click on the retry button of element k: the typing indicator comes
\* back, then the retry callback runs
RetryClicked(k) ==
    /\ app.slots[k].st = "error"
    /\ app.slots[k].retry # 0
    /\ LET old == app.att[app.slots[k].retry]
           cleared == [app EXCEPT !.slots[k] = [st |-> "typing", text |-> <<>>,
                                                retry |-> 0]]
       IN IF app.isGenerating
          THEN /\ app' = cleared
               /\ UNCHANGED <<calls, callbacks, inbox>>
          ELSE \E a \in Attempts, c \in Calls :
                /\ FreshAttempt(a)
                /\ FreshCall(c)
                /\ GenerateCall(old.id, c)
                /\ app' = AttemptStarts(cleared, a, c, old.id, old.slot,
                                        old.history, app.slots[k].retry, "retry", 0)
    /\ Stimulus
    /\ last' = Quiet
    /\ UNCHANGED <<workers, readyModels, loadingModels, inits, rt, emitted,
                   handled, probe>>

\* stopGeneration
StopGeneration ==
    /\ app.isGenerating
    /\ app.currentModel # ""
    /\ Stimulus
    /\ inbox' = IF app.compareModel # ""
                 THEN WithAbort(WithAbort(inbox, app.currentModel), app.compareModel)
                 ELSE WithAbort(inbox, app.currentModel)
    /\ app' = [app EXCEPT !.stops = @ + 1]
    /\ last' = Quiet
    /\ UNCHANGED <<registry, inits, calls, rt, emitted, handled, probe>>

\* the watchdog's timer of attempt a expires: 45 s passed since resetTimeout
WatchdogFires(a) ==
    /\ app.att[a].timer
    /\ app' = [app EXCEPT !.att[a].timer = FALSE, !.att[a].timedOut = TRUE,
                          !.att[a].aborts = @ + 1,
                          !.att[a].late = (app.att[a].st = "ended")]
    /\ inbox' = WithAbort(inbox, app.att[a].id)
    /\ last' = Quiet
    /\ UNCHANGED <<registry, inits, calls, rt, emitted, handled, ops, probe>>

\* case 'token' with the onToken of generateSingleResponse
OnToken(w) ==
    LET
        \* ui.updateStreamingMessage
        Rendered(S, k, text) ==
            IF Streaming(S, k) THEN [S EXCEPT ![k] = [st |-> "text", text |-> text, retry |-> 0]]
            ELSE S
    IN
    /\ Dispatches(w, "token")
    /\ LET id == rt[w].model
           c == callbacks[id].gen
           a == AttemptOf(c)
           ev == NextEvent(w)
       IN /\ calls' = IF c # 0 THEN Deliver(calls, c, ev) ELSE calls
          /\ IF a = 0
             THEN UNCHANGED <<inbox, app>>
             ELSE IF isRepetitive(ev.text)
             THEN /\ app' = [app EXCEPT !.att[a].timer = FALSE,
                                        !.att[a].repetitionDetected = TRUE,
                                        !.att[a].tripped = ev.text]
                  /\ inbox' = WithAbort(inbox, app.att[a].id)
             ELSE /\ app' = [app EXCEPT !.att[a].timer = TRUE,
                                        !.slots = Rendered(@, app.att[a].slot, ev.text)]
                  /\ UNCHANGED inbox
          /\ last' = Quiet
    /\ UNCHANGED <<registry, inits, rt, emitted, ops, probe>>

\* case 'complete' with the onComplete of generateSingleResponse: the timer
\* is cleared and store.addMessage starts; then the promise resolves
OnComplete(w) ==
    /\ Dispatches(w, "complete")
    /\ LET id == rt[w].model
           c == callbacks[id].gen
           a == AttemptOf(c)
           ev == NextEvent(w)
       IN /\ Continues(IF a = 0 THEN app
                        ELSE Concluded([app EXCEPT !.att[a].timer = FALSE,
                                                   !.saving = Append(@,
                                                       [slot |-> app.att[a].slot,
                                                        att |-> a,
                                                        conv |-> app.currentConversationId,
                                                        content |-> ev.text])],
                                       a, ""),
                        IF c # 0
                        THEN DeliverAndSettle(calls, c, ev, "resolved", ev.text)
                        ELSE calls,
                        a, c)
          /\ last' = Quiet
    /\ UNCHANGED <<workers, readyModels, loadingModels, inits, rt, emitted, ops,
                   probe>>

\* store.addMessage of an onComplete finishes; ui.finalizeStreamingMessage
MessageSaved ==
    LET
        \* ui.finalizeStreamingMessage: the element takes the stored message's id
        Finalized(S, k, text) ==
            IF Streaming(S, k) THEN [S EXCEPT ![k] = [st |-> "final", text |-> text, retry |-> 0]]
            ELSE S
    IN
    /\ app.saving # <<>>
    /\ LET s == Head(app.saving)
       IN app' = [app EXCEPT !.saving = Tail(@),
                             !.store = Append(@, [att |-> s.att, conv |-> s.conv,
                                                  content |-> s.content]),
                             !.slots = Finalized(@, s.slot, s.content)]
    /\ last' = Quiet
    /\ UNCHANGED <<registry, inits, calls, rt, inbox, emitted, handled, ops, probe>>

\* case 'aborted': generate() passes no onAborted on, the promise resolves
\* with null
OnAborted(w) ==
    /\ Dispatches(w, "aborted")
    /\ LET id == rt[w].model
           c == callbacks[id].gen
           a == AttemptOf(c)
       IN /\ Continues(IF a = 0 \/ calls[c].st # "pending" THEN app
                        ELSE Concluded(app, a, ""),
                        IF c # 0
                        THEN DeliverAndSettle(calls, c, NextEvent(w), "resolved", Null)
                        ELSE calls,
                        a, c)
          /\ last' = Quiet
    /\ UNCHANGED <<workers, readyModels, loadingModels, inits, rt, emitted, ops,
                   probe>>

\* case 'error': the promise rejects with the engine's message
OnError(w) ==
    /\ Dispatches(w, "error")
    /\ LET id == rt[w].model
           c == callbacks[id].gen
           i == callbacks[id].init
           a == AttemptOf(c)
           ev == NextEvent(w)
       IN /\ loadingModels' = ErrorClearsLoading(id)
          /\ Continues(IF a = 0 \/ calls[c].st # "pending" THEN app
                        ELSE Concluded(app, a, ev.msg),
                        IF c # 0
                        THEN DeliverAndSettle(calls, c, ev, "rejected", <<ev.msg>>)
                        ELSE calls,
                        a, c)
          /\ inits' = SettleInit(inits, i, "rejected", ev.msg)
          /\ last' = Quiet
    /\ UNCHANGED <<workers, readyModels, rt, emitted, ops, probe>>

AppInit ==
    /\ Constructed
    /\ ops = MaxAppOps
    /\ probe = NoProbe
    /\ app = NoApp

AppNext ==
    \/ \E id \in Primary : InitModelCreate(id)
    \/ SendMessage
    \/ StopGeneration
    \/ \E k \in Slots : RetryClicked(k)
    \/ \E a \in Attempts : WatchdogFires(a)
    \/ MessageSaved
    \/ \E w \in Workers : WorkerStart(w)
    \/ \E w \in Workers : WorkerOnInit(w)
    \/ \E w \in Workers : WorkerLoaded(w)
    \/ \E w \in Workers : WorkerOnGenerate(w)
    \/ \E w \in Workers : WorkerOnAbort(w)
    \/ \E w \in Workers, token \in Tokens : StreamToken(w, token)
    \/ \E w \in Workers : EngineResolves(w)
    \/ \E w \in Workers : EngineRejects(w)
    \/ \E w \in Workers : HandleWorkerReady(w)
    \/ \E w \in Workers : ModelLoaded(w)
    \/ \E w \in Workers : HandleGenerating(w)
    \/ \E w \in Workers : OnToken(w)
    \/ \E w \in Workers : OnComplete(w)
    \/ \E w \in Workers : OnAborted(w)
    \/ \E w \in Workers : OnError(w)

AppSpec == AppInit /\ [][AppNext]_vars

\* ------------------------------------------------ comparison of two models
\* state.currentModel = modelId of loadModel, state.compareModel = modelId of
\* loadCompareModel
Assigned(A, target, id) ==
    IF target = "current" THEN [A EXCEPT !.currentModel = id]
    ELSE IF target = "compare" THEN [A EXCEPT !.compareModel = id]
    ELSE A

\* loadModel / loadCompareModel: initModel(id) on its three paths, and the
\* assignment that waits for its promise
LoadInto(target, id) ==
    /\ Stimulus
    /\ \E i \in Inits :
        /\ FreshInit(i)
        /\ IF id \in readyModels
           THEN /\ inits' = [inits EXCEPT ![i] =
                        [id |-> id, kind |-> "ready", st |-> "resolved", why |-> "",
                         main |-> 0]]
                /\ app' = Assigned(app, target, id)
                /\ UNCHANGED <<registry, rt>>
           ELSE IF id \in loadingModels
           THEN /\ inits' = [inits EXCEPT ![i] =
                        [id |-> id, kind |-> "poll", st |-> "pending", why |-> "",
                         main |-> PendingLoad(id)]]
                /\ app' = [app EXCEPT !.target[i] = target]
                /\ UNCHANGED <<registry, rt>>
           ELSE \E w \in Workers :
                /\ FreshWorker(w)
                /\ inits' = [inits EXCEPT ![i] =
                        [id |-> id, kind |-> "main", st |-> "pending", why |-> "",
                         main |-> 0]]
                /\ rt' = [rt EXCEPT ![w] =
                        [NoWorker EXCEPT !.st = "booting", !.model = id, !.owner = i]]
                /\ workers' = [workers EXCEPT ![id] = w]
                /\ callbacks' = [callbacks EXCEPT ![id] =
                        [has |-> TRUE, init |-> i, gen |-> 0]]
                /\ loadingModels' = loadingModels \cup {id}
                /\ app' = [app EXCEPT !.target[i] = target]
                /\ UNCHANGED readyModels
    /\ last' = Quiet
    /\ UNCHANGED <<calls, inbox, emitted, handled, probe>>

LoadModel(id) == LoadInto("current", id)

LoadCompareModel(id) == LoadInto("compare", id)

\* case 'ready': the promise of the load resolves and its caller assigns
LoadedInto(w) ==
    /\ Dispatches(w, "ready")
    /\ LET id == rt[w].model
           i == callbacks[id].init
       IN /\ loadingModels' = loadingModels \ {id}
          /\ readyModels' = readyModels \cup {id}
          /\ inits' = SettleInit(inits, i, "resolved", "")
          /\ app' = IF i # 0 /\ inits[i].st = "pending"
                    THEN Assigned(app, app.target[i], id)
                    ELSE app
          /\ last' = Quiet
    /\ UNCHANGED <<workers, callbacks, calls, rt, inbox, emitted, ops, probe>>

\* the setInterval callback of an "already loading" promise, and its caller
PolledInto(i) ==
    /\ inits[i].kind = "poll"
    /\ inits[i].st = "pending"
    /\ \/ /\ inits[i].id \in readyModels
          /\ inits' = SettleInit(inits, i, "resolved", "")
          /\ app' = Assigned(app, app.target[i], inits[i].id)
       \/ /\ inits[i].id \notin readyModels
          /\ inits[i].id \notin loadingModels
          /\ inits' = SettleInit(inits, i, "rejected", "Model loading failed")
          /\ UNCHANGED app
    /\ last' = Quiet
    /\ UNCHANGED <<registry, calls, rt, inbox, emitted, handled, ops, probe>>

\* sendMessage and generateResponse's comparison branch: createComparisonRow
\* makes two elements; one model is asked twice in turn, two models at once
SendCompare ==
    /\ app.currentModel # ""
    /\ app.currentModel \in readyModels
    /\ ~app.isGenerating
    /\ CompareReady
    /\ \E k \in Slots, a \in Attempts :
        /\ FreshSlot(k)
        /\ k + 1 \in Slots
        /\ FreshAttempt(a)
        /\ a + 1 \in Attempts
        /\ \E c \in Calls : FreshCall(c) /\ c + 1 \in Calls
        /\ LET A0 == WithConversation([app EXCEPT !.slots[k].st = "typing",
                                                  !.slots[k + 1].st = "typing",
                                                  !.sends = @ + 1])
               G0 == [calls |-> calls, callbacks |-> callbacks, inbox |-> inbox]
               c1 == NextCall(calls)
               G1 == Generated(G0, app.currentModel, c1, 0)
               c2 == NextCall(G1.calls)
               G2 == Generated(G1, app.compareModel, c2, 0)
               A1 == AttemptStarts(A0, a, c1, app.currentModel, k, app.sends + 1,
                                   0, "left", a + 1)
           IN IF app.currentModel = app.compareModel
              THEN /\ app' = AttemptStarts(A0, a, c1, app.currentModel, k,
                                           app.sends + 1, 0, "first", k + 1)
                   /\ calls' = G1.calls
                   /\ callbacks' = G1.callbacks
                   /\ inbox' = G1.inbox
              ELSE /\ app' = AttemptStarts(A1, a + 1, c2, app.compareModel, k + 1,
                                           app.sends + 1, 0, "right", a)
                   /\ calls' = G2.calls
                   /\ callbacks' = G2.callbacks
                   /\ inbox' = G2.inbox
    /\ Stimulus
    /\ last' = Quiet
    /\ UNCHANGED <<workers, readyModels, loadingModels, inits, rt, emitted,
                   handled, probe>>

\* the streamer's callback in a run that compares: short generations
DualStreamToken(w, token) ==
    /\ rt[w].sent < MaxDualTokens
    /\ StreamToken(w, token)

\* init() found compare mode switched on in the stored settings
DualInit ==
    /\ Constructed
    /\ ops = MaxAppOps
    /\ probe = NoProbe
    /\ app = [NoApp EXCEPT !.compareMode = TRUE]

DualNext ==
    \/ \E id \in Primary : LoadModel(id)
    \/ \E id \in ModelIds : LoadCompareModel(id)
    \/ SendMessage
    \/ SendCompare
    \/ \E a \in Attempts : WatchdogFires(a)
    \/ MessageSaved
    \/ \E w \in Workers : WorkerStart(w)
    \/ \E w \in Workers : WorkerOnInit(w)
    \/ \E w \in Workers : WorkerLoaded(w)
    \/ \E w \in Workers : WorkerOnGenerate(w)
    \/ \E w \in Workers : WorkerOnAbort(w)
    \/ \E w \in Workers, token \in Tokens : DualStreamToken(w, token)
    \/ \E w \in Workers : EngineResolves(w)
    \/ \E w \in Workers : EngineRejects(w)
    \/ \E w \in Workers : HandleWorkerReady(w)
    \/ \E w \in Workers : LoadedInto(w)
    \/ \E i \in Inits : PolledInto(i)
    \/ \E w \in Workers : HandleGenerating(w)
    \/ \E w \in Workers : OnToken(w)
    \/ \E w \in Workers : OnComplete(w)
    \/ \E w \in Workers : OnAborted(w)
    \/ \E w \in Workers : OnError(w)

DualSpec == DualInit /\ [][DualNext]_vars

\* ================================================================ claims
\* the events command c's worker has posted for it, handled or not
Posted(w, c) ==
    LET F(e) == e.call = c
    IN SelectSeq(emitted[w], F)

\* generate call c reached a worker that still runs
Routed(c) == calls[c].posted /\ rt[calls[c].w].st = "live"

\* C1: a generate call made while an earlier generate for the same id is in
\* flight is rejected at once, with nothing posted, and the earlier call
\* keeps its callbacks, so its events and its outcome still reach it.
C1_SecondRejectedFirstUndisturbed ==
    /\ \A c \in Calls :
          calls[c].overlap => (calls[c].st = "rejected" /\ ~calls[c].posted)
    /\ \A c \in Calls : InFlight(c) => callbacks[calls[c].id].gen = c

\* C2: for every generation a worker accepts ('generating'), nothing follows
\* its terminal event, and once it has ended it has exactly one terminal
\* event (complete, aborted or error), its last event.
C2_ExactlyOneTerminalEvent ==
    \A w \in Workers, c \in Calls :
        LET evs == Posted(w, c)
        IN (evs # <<>> /\ evs[1].type = "generating") =>
              /\ \A k \in 2..Len(evs) : evs[k].type # "generating"
              /\ \A k \in 1..(Len(evs) - 1) : evs[k].type \notin Terminal
              /\ (rt[w].cur # c) <=> (Last(evs).type \in Terminal)

\* a generation was accepted, an abort was observed, and it ended 'aborted'
C2_Witness ==
    \E w \in Workers, c \in Calls :
        /\ rt[w].cur # c
        /\ Posted(w, c) # <<>>
        /\ Posted(w, c)[1].type = "generating"
        /\ Last(Posted(w, c)).type = "aborted"

\* C3: the callbacks invoked for a generate call are exactly the worker
\* events of that call handled so far, in arrival order: none dropped,
\* duplicated, reordered or handed to another call.
C3_CallbacksInArrivalOrder ==
    \A c \in Calls : Routed(c) => calls[c].log = Arrived(c)

\* C4: once the terminal event of a generate call has been handled, its
\* promise is settled accordingly - resolved with the content of 'complete',
\* resolved with null after 'aborted', rejected with the message of 'error' -
\* and the caller's callback ran before the promise settled.
C4_PromiseFollowsTerminalEvent ==
    \A c \in Calls :
        (Routed(c) /\ TerminalHandled(c)) =>
            LET ev == Last(Arrived(c))
            IN /\ ev.type = "complete" =>
                      (calls[c].st = "resolved" /\ calls[c].val = ev.text)
               /\ ev.type = "aborted" =>
                      (calls[c].st = "resolved" /\ calls[c].val = Null)
               /\ ev.type = "error" =>
                      (calls[c].st = "rejected" /\ calls[c].val = <<ev.msg>>)
               /\ calls[c].cbFirst

\* C5: generate for an id without a worker rejects 'not initialized', for an
\* id with a worker that is not ready 'not ready'; the call posts nothing,
\* changes neither the registry nor any worker, and never gets a callback.
C5_RejectedGenerateHasNoEffect ==
    /\ [](\A c \in Calls : (calls[c].st # "unused" /\ ~calls[c].posted) =>
              /\ calls[c].log = <<>>
              /\ \A w \in Workers : Posted(w, c) = <<>>)
    /\ [][\A id \in ModelIds, c \in Calls :
            (/\ calls[c].st = "unused"
             /\ calls'[c].st # "unused"
             /\ calls'[c].id = id
             /\ (workers[id] = 0 \/ id \notin readyModels))
            => /\ calls'[c].st = "rejected"
               /\ calls'[c].val = IF workers[id] = 0
                                  THEN <<"not initialized">> ELSE <<"not ready">>
               /\ ~calls'[c].posted
               /\ UNCHANGED <<registry, inits, rt, inbox, emitted, handled>>]_vars

\* both rejections have happened
C5_Witness ==
    /\ \E c \in Calls : calls[c].st = "rejected" /\ calls[c].val = <<"not initialized">>
    /\ \E c \in Calls : calls[c].st = "rejected" /\ calls[c].val = <<"not ready">>

\* C6: an initModel call made while an earlier one for the same id is
\* pending settles with the same outcome as that earlier call.
C6_JoinedInitsSettleTogether ==
    \A j \in Inits :
        (/\ inits[j].kind = "poll"
         /\ inits[j].main # 0
         /\ inits[j].st # "pending"
         /\ inits[inits[j].main].st # "pending")
        => inits[j].st = inits[inits[j].main].st

\* C7: when createWorker throws, initModel rejects and afterwards id is not
\* loading and has neither a worker handle nor a callback entry.
C7_CreateFailureLeavesNoEntry ==
    [][\A i \in Inits :
        (inits[i].kind = "unused" /\ inits'[i].why = "create")
        => /\ inits'[i].st = "rejected"
           /\ inits'[i].id \notin loadingModels'
           /\ workers'[inits'[i].id] = 0
           /\ ~callbacks'[inits'[i].id].has]_vars

\* C8: when the coordinator has handled an error for id (an 'error' event or
\* the Worker's error callback), the error was surfaced - the onError hook or
\* an onError callback was invoked, or a pending promise was rejected - and
\* id is not in the loading set.
C8_ErrorsSurfaceAndClearLoading ==
    last.op \in {"error", "onerror"} =>
        /\ last.hook = "onError" \/ last.cb \/ last.rej
        /\ last.id \notin loadingModels

\* the Worker's error callback fired for a model that was ready: no promise
\* was pending and no generate callback was registered
C8_Witness ==
    /\ last.op = "onerror"
    /\ ~last.rej
    /\ last.id \in readyModels

\* C9: a worker's isGenerating flag is set exactly while a generation runs,
\* so a generate command is refused as busy only during a generation whose
\* terminal event is still to come; a worker that has generated keeps its
\* model, and its id stays ready once the terminal event has been handled.
C9_ReadyAgainAfterGeneration ==
    /\ \A w \in Workers : rt[w].isGenerating <=> rt[w].cur # 0
    /\ \A w \in Workers : \A k \in 1..Len(emitted[w]) :
          emitted[w][k].msg = "Already generating" =>
              \E j \in 1..(k - 1) :
                  /\ emitted[w][j].type = "generating"
                  /\ \A t \in (j + 1)..(k - 1) :
                        ~(emitted[w][t].call = emitted[w][j].call
                            /\ emitted[w][t].type \in Terminal)
    /\ \A w \in Workers : \A k \in 1..Len(emitted[w]) :
          emitted[w][k].type = "generating" =>
              (rt[w].generator /\ rt[w].currentModel = rt[w].model)
    /\ \A c \in Calls :
          (Routed(c) /\ TerminalHandled(c)) => calls[c].id \in readyModels

\* a generation ended with an engine error and the same worker accepted the
\* next generate command
C9_Witness ==
    \E w \in Workers : \E j, k \in 1..Len(emitted[w]) :
        /\ j < k
        /\ emitted[w][j].msg = "engine failure"
        /\ emitted[w][k].type = "generating"

\* C10: abort never throws; without a worker it posts nothing; it changes no
\* registry state; and an abort posted while the handle is idle never makes
\* a later generation end 'aborted'.
C10_IdleAbortIsNoOp ==
    /\ [](last.op = "abort" => ~last.threw)
    /\ [](\A w \in Workers : ~rt[w].spurious)
    /\ [][(last'.op = "abort" /\ ops' # ops) =>
            /\ UNCHANGED <<registry, inits, calls, rt, emitted, handled>>
            /\ workers[last'.id] = 0 => UNCHANGED inbox]_vars

\* a worker received an abort posted while it was idle and later completed
\* a generation
C10_Witness ==
    \E w \in Workers : \E k \in 1..Len(emitted[w]) :
        /\ rt[w].sawIdleAbort
        /\ emitted[w][k].type = "complete"

\* C11: abort is cooperative: nothing follows a generation's 'aborted' event
\* (no token in particular), and when the coordinator has handled the
\* 'aborted' event of a generate call, that call's promise is resolved with
\* null.
C11_AbortedResolvesCallerWithNull ==
    /\ \A w \in Workers, c \in Calls :
          \A k \in 1..Len(Posted(w, c)) :
              Posted(w, c)[k].type = "aborted" => k = Len(Posted(w, c))
    /\ \A c \in Calls :
          (Routed(c) /\ Arrived(c) # <<>> /\ Last(Arrived(c)).type = "aborted")
          => (calls[c].st = "resolved" /\ calls[c].val = Null)

\* the token events a worker has posted for generate command c
TokenEvents(w, c) ==
    LET F(e) == e.type = "token"
    IN SelectSeq(Posted(w, c), F)

TailRepeats(text, len, n) ==
    /\ Len(text) >= len * n
    /\ \A j \in 1..(len * (n - 1)) :
          text[Len(text) - len * n + j] = text[Len(text) - len * n + j + len]

\* that block
TailBlock(text, len, n) ==
    SubSeq(text, Len(text) - len * n + 1, Len(text) - len * n + len)

WhitespaceOnly(text) == \A k \in 1..Len(text) : text[k] \in Whitespace

WhitespaceFree(text) == \A k \in 1..Len(text) : text[k] \notin Whitespace

\* C15: isRepetitive returns true for every text that ends with a block of
\* 4 to 50 characters, not whitespace-only, repeated back-to-back at least
\* 6 times, whatever precedes it.
C15_RepeatedBlockIsFlagged ==
    probe.st = "checked" =>
        ((\E len \in 4..maxPatternLen :
              /\ TailRepeats(probe.text, len, 6)
              /\ ~WhitespaceOnly(TailBlock(probe.text, len, 6)))
         => probe.flagged)

\* a four-character token repeated 8 times after normal text was checked
C15_Witness ==
    /\ probe.st = "checked"
    /\ probe.text = Prose \o Repeat(LoopBlock, 8)
    /\ probe.flagged

\* C16: a text whose tail is a whitespace-free pattern of 1 to 3 characters
\* repeated fewer than 25 times is not flagged, whereas a tail pattern of 4
\* or more characters is flagged from 6 repeats.
C16_ShortPatternsNeedManyRepeats ==
    LET text == probe.text
        shortTail == \E len \in 1..3 :
                        /\ TailRepeats(text, len, 2)
                        /\ WhitespaceFree(TailBlock(text, len, 2))
        fewRepeats == \A len \in 1..3 : ~TailRepeats(text, len, 25)
        longTail == \E len \in 4..maxPatternLen :
                        /\ TailRepeats(text, len, 6)
                        /\ WhitespaceFree(TailBlock(text, len, 6))
    IN probe.st = "checked" =>
          /\ (shortTail /\ fewRepeats) => ~probe.flagged
          /\ longTail => probe.flagged

\* C17: isRepetitive returns true only if, for some pattern length, the tail
\* of the text is one block repeated as often as that length requires (25
\* times below 4 characters, else 6 times); what precedes the tail does not
\* count, and varied prose is not flagged.
C17_OnlyTheTailCounts ==
    probe.st = "checked" =>
        /\ probe.flagged =>
              \E len \in minPatternLen..maxPatternLen :
                  TailRepeats(probe.text, len, IF len < 4 THEN 25 ELSE 6)
        /\ probe.text = Prose => ~probe.flagged

\* a text that starts with a block repeated often enough and ends otherwise
\* was checked and not flagged
C17_Witness ==
    /\ probe.st = "checked"
    /\ ~probe.flagged
    /\ Len(probe.text) > 24
    /\ \E len \in 4..MaxBlock :
          /\ TailRepeats(SubSeq(probe.text, 1, Len(probe.text) - 1), len, 6)
          /\ WhitespaceFree(SubSeq(probe.text, 1, len))

\* C18: a text of whitespace characters only is never flagged, and whenever
\* a text is flagged, a block that is not whitespace-only repeats at its
\* tail as often as its length requires.
C18_WhitespacePatternsIgnored ==
    probe.st = "checked" =>
        /\ WhitespaceOnly(probe.text) => ~probe.flagged
        /\ probe.flagged =>
              \E len \in minPatternLen..maxPatternLen :
                  LET n == IF len < 4 THEN 25 ELSE 6
                  IN /\ TailRepeats(probe.text, len, n)
                     /\ ~WhitespaceOnly(TailBlock(probe.text, len, n))

\* a long whitespace-only text was checked
C18_Witness ==
    /\ probe.st = "checked"
    /\ WhitespaceOnly(probe.text)
    /\ Len(probe.text) >= 25

\* C13: an attempt whose watchdog fired while it ran has had exactly one abort
\* issued by the watchdog and ends by reporting the timeout error
C13_WatchdogAbortsOnceAndReportsTimeout ==
    \A a \in Attempts :
        (app.att[a].st = "ended" /\ app.att[a].timedOut /\ ~app.att[a].late)
            => /\ app.att[a].aborts = 1
               /\ app.att[a].report = TimeoutError

\* attempt a was ended by an abort that neither of its guards asked for
StoppedByUser(a) ==
    LET
        \* the promise of attempt a resolved with null: the 'aborted' event ended it
        ResolvedAborted ==
            /\ app.att[a].st = "ended"
            /\ calls[app.att[a].call].st = "resolved"
            /\ calls[app.att[a].call].val = Null
    IN
    /\ ResolvedAborted
    /\ ~app.att[a].repetitionDetected
    /\ app.att[a].timedOut => app.att[a].late

\* C14: the timeout error is reported for an attempt only if its own watchdog
\* fired, and an attempt ended by a stop of the user resolves as aborted with
\* no error reported and no retry offered
C14_TimeoutOnlyFromOwnWatchdog ==
    \A a \in Attempts :
        /\ app.att[a].report = TimeoutError
                => (app.att[a].timedOut /\ app.att[a].aborts > 0)
        /\ StoppedByUser(a)
                => /\ app.att[a].report = "ok"
                   /\ \A k \in Slots : app.slots[k].retry # a

C14_Witness ==
    \E a \in Attempts :
        /\ StoppedByUser(a)
        /\ app.stops > 0
        /\ app.att[a].aborts = 0
        /\ app.slots[app.att[a].slot].st \in {"typing", "text"}

\* C19: an attempt whose repetition guard tripped ends by reporting the
\* repetition error, and the text that tripped the guard is never shown in
\* the attempt's slot
C19_RepetitionTripReported ==
    \A a \in Attempts :
        app.att[a].repetitionDetected
            => /\ app.att[a].st = "ended" => app.att[a].report = RepetitionError
               /\ app.slots[app.att[a].slot].text # app.att[a].tripped

\* C20: an attempt that ended with an error has a retry button in its slot
\* until it is used; a click on it starts the same request again with a fresh
\* watchdog and fresh flags, and no step changes a persisted message
C20_RetryReissuesRequest ==
    [][LET
           \* attempt b of A' is attempt a of A issued again from scratch
           Reissued(A, a, b) ==
               /\ app.att[b].st = "unused"
               /\ A.att[b].st # "unused"
               /\ A.att[b].retryOf = a
               /\ A.att[b].id = A.att[a].id
               /\ A.att[b].history = A.att[a].history
               /\ A.att[b].slot = A.att[a].slot
               /\ A.att[b].timer
               /\ ~A.att[b].timedOut
               /\ ~A.att[b].repetitionDetected
               /\ A.att[b].aborts = 0
           \* attempt a of application state A ended by reporting an error and no retry
           \* of it has been started
           AwaitsRetry(A, a) ==
               /\ A.att[a].st = "ended"
               /\ A.att[a].report \notin {"none", "ok"}
               /\ \A b \in Attempts : A.att[b].retryOf # a
       IN
       /\ \A a \in Attempts :
            AwaitsRetry(app', a) => app'.slots[app'.att[a].slot].retry = a
       /\ \A k \in Slots :
            (app.slots[k].st = "error" /\ app'.slots[k].st = "typing")
                => \E b \in Attempts : Reissued(app', app.slots[k].retry, b)
       /\ Len(app'.store) >= Len(app.store)
       /\ SubSeq(app'.store, 1, Len(app.store)) = app.store]_vars

\* C23: at most one created and not terminated worker has its events routed
\* to a given model id
C23_OneRoutedWorkerPerId ==
    LET
        \* the Worker objects created for id whose script can still post events:
        \* worker.onmessage hands each of them to handleWorkerMessage(id, ...)
        RoutedTo(id) == {w \in Workers : rt[w].st \in {"booting", "live"} /\ rt[w].model = id}
    IN
    \A id \in ModelIds : Cardinality(RoutedTo(id)) <= 1

\* C24: unloadModel(id) on an existing handle terminates and removes the
\* worker and leaves id not ready, not loading and without callbacks, so that
\* generate(id) is refused as not initialized and initModel(id) finds nothing
\* that keeps it from creating a new worker
C24_UnloadReleasesBookkeeping ==
    [][LET
           \* this step is unloadModel(id) finding a handle: its worker is terminated
           Unloads(id) ==
               /\ workers[id] # 0
               /\ rt[workers[id]].st # "terminated"
               /\ rt'[workers[id]].st = "terminated"
       IN
       \A id \in ModelIds :
        Unloads(id) => /\ workers'[id] = 0
                       /\ id \notin readyModels'
                       /\ id \notin loadingModels'
                       /\ callbacks'[id] = NoCallbacks
                       /\ GenerateGate(id)' = "not initialized"]_vars

\* neither the registry nor any worker, queue or promise is touched
NothingReleased ==
    UNCHANGED <<registry, inits, calls, rt, inbox, emitted, handled>>

\* C25: unloadModel(id) for an id without a handle, and unloadAll() on an
\* empty registry, throw nothing, post nothing and leave the registry as it is
C25_UnloadWithoutHandleIsNoOp ==
    [][/\ \A id \in ModelIds :
            (workers[id] = 0 /\ UnloadModel(id)) => (NothingReleased /\ ~last'.threw)
       /\ ((\A id \in ModelIds : workers[id] = 0) /\ UnloadAll)
            => (NothingReleased /\ ~last'.threw)]_vars

\* an unload that found no handle although the id still has bookkeeping
C25_Witness ==
    /\ last.op \in {"unload without handle", "unloadAll without handle"}
    /\ \E id \in ModelIds : workers[id] = 0 /\ callbacks[id].has

\* the generations worker w announced with 'generating' and has not ended
\* with a terminal event: the engine calls it has in flight
EngineCalls(w) ==
    {c \in Calls :
        /\ \E k \in 1..Len(emitted[w]) :
              emitted[w][k].call = c /\ emitted[w][k].type = "generating"
        /\ ~\E k \in 1..Len(emitted[w]) :
              emitted[w][k].call = c /\ emitted[w][k].type \in Terminal}

\* worker w takes a generate command from its queue while it generates
BusyReceive(w) ==
    /\ rt[w].st = "live"
    /\ rt'[w].st = "live"
    /\ rt[w].isGenerating
    /\ inbox[w] # <<>>
    /\ Head(inbox[w]).type = "generate"
    /\ inbox'[w] = Tail(inbox[w])

\* C26: a generate command that reaches a worker while it generates is
\* answered with the 'Already generating' error, is dropped from the queue
\* and changes nothing of the worker's state; no worker ever has more than
\* one engine call in flight
C26_OneGenerationAtATime ==
    /\ [](\A w \in Workers : Cardinality(EngineCalls(w)) <= 1)
    /\ [][\A w \in Workers :
            BusyReceive(w)
                => /\ emitted'[w] = Append(emitted[w],
                                            Ev("error", Head(inbox[w]).call, <<>>, <<>>,
                                               "Already generating"))
                   /\ rt'[w] = rt[w]
                   /\ EngineCalls(w)' = EngineCalls(w)]_vars

\* a busy error was posted and the generation that was running goes on
C26_Witness ==
    \E w \in Workers :
        /\ emitted[w] # <<>>
        /\ Last(emitted[w]).msg = "Already generating"
        /\ rt[w].isGenerating
        /\ Cardinality(EngineCalls(w)) = 1
        /\ EngineCalls(w) = {rt[w].cur}
        /\ Last(emitted[w]).call # rt[w].cur

\* C27: an attempt that has ended has no watchdog timer armed, and no timer
\* of it has fired after its end
C27_NoTimerOutlivesItsAttempt ==
    \A a \in Attempts :
        app.att[a].st = "ended" => (~app.att[a].timer /\ ~app.att[a].late)

\* C28: the promise of a generate call that posted its command can always
\* still be settled: while it is pending, the worker that got the command has
\* not been terminated (a terminated worker posts nothing, so a promise
\* pending on it is never settled, whatever the scheduling)
C28_PendingCallKeepsItsWorker ==
    \A c \in Calls :
        (calls[c].st = "pending" /\ calls[c].posted)
            => rt[calls[c].w].st # "terminated"

\* C29: an attempt that ended by reporting the timeout or the repetition
\* error has persisted no assistant message
C29_FailedAttemptPersistsNothing ==
    LET
        \* the assistant messages attempt a has handed to store.addMessage
        SavedBy(a) ==
            LET F(m) == m.att = a
            IN Len(SelectSeq(app.store, F)) + Len(SelectSeq(app.saving, F))
    IN
    \A a \in Attempts :
        app.att[a].report \in {TimeoutError, RepetitionError} => SavedBy(a) = 0

\* the two attempts of a comparison of two models
Sides == {a \in Attempts : app.att[a].st # "unused" /\ app.att[a].role \in {"left", "right"}}

\* C21: in a comparison of two models both generate calls are made in one
\* step (each is posted to its worker unless generate() refused it at once),
\* every side renders only its own tokens into its own slot, the
\* whole operation is over exactly when both sides have ended, and a guard
\* aborts only the model of its own attempt
C21_DualSidesIndependentAndJoined ==
    /\ [](LET
              \* the texts the token events delivered to attempt a carried
              Streamed(a) ==
                  {calls[app.att[a].call].log[n].text : n \in
                      {m \in 1..Len(calls[app.att[a].call].log) :
                          calls[app.att[a].call].log[m].type = "token"}}
          IN
          \A a \in Sides :
            LET b == app.att[a].other
            IN /\ b \in Sides
               /\ app.att[b].other = a
               /\ app.att[a].slot # app.att[b].slot
               /\ app.att[a].id # app.att[b].id
               /\ calls[app.att[a].call].posted \/ calls[app.att[a].call].st = "rejected"
               /\ calls[app.att[b].call].posted \/ calls[app.att[b].call].st = "rejected"
               /\ app.slots[app.att[a].slot].st = "text"
                    => app.slots[app.att[a].slot].text \in Streamed(a)
               /\ ~app.isGenerating
                    => (app.att[a].st = "ended" /\ app.att[b].st = "ended"))
    /\ [][LET
              \* a guard of an attempt on model id trips in this step: its watchdog
              \* fires, or a token delivered to it is found repetitive
              GuardTrips(id) ==
                  \E a \in Attempts :
                      /\ app.att[a].id = id
                      /\ \/ app'.att[a].aborts > app.att[a].aborts
                         \/ /\ app'.att[a].repetitionDetected
                            /\ Len(calls'[app.att[a].call].log) > Len(calls[app.att[a].call].log)
              \* worker w is sent an abort command in this step
              AbortPosted(w) ==
                  /\ Len(inbox'[w]) > Len(inbox[w])
                  /\ Last(inbox'[w]).type = "abort"
          IN
          /\ \A a \in Attempts :
               (/\ app'.att[a].role \in {"left", "right"}
                /\ app.att[a].st = "running"
                /\ app'.att[a].st = "ended"
                /\ app'.att[app'.att[a].other].st = "ended")
                    => ~app'.isGenerating
          /\ \A w \in Workers :
               AbortPosted(w) => GuardTrips(rt[w].model)]_vars

\* one side failed, the other completed, and the comparison is over
C21_Witness ==
    \E a \in Sides :
        LET b == app.att[a].other
        IN /\ app.att[a].report \notin {"none", "ok"}
           /\ app.att[b].report = "ok"
           /\ calls[app.att[b].call].st = "resolved"
           /\ calls[app.att[b].call].val # Null
           /\ ~app.isGenerating

\* the positions in worker w's event stream of the events of call c
EventsOf(w, c) == {n \in 1..Len(emitted[w]) : emitted[w][n].call = c}

\* C22: when both sides of a comparison use the same model, the second
\* generate call is made only once the first call has settled on a terminal
\* event of its own that the coordinator dispatched; every event of the
\* second call follows every event of the first, and the second call is
\* never answered with 'Already generating'
C22_SameModelSidesRunInTurn ==
    LET
        \* the pairs of attempts one send started on one and the same model
        SameModelPairs ==
            {p \in Attempts \X Attempts :
                /\ p[1] < p[2]
                /\ app.att[p[1]].st # "unused"
                /\ app.att[p[2]].st # "unused"
                /\ app.att[p[1]].retryOf = 0
                /\ app.att[p[2]].retryOf = 0
                /\ app.att[p[1]].history = app.att[p[2]].history
                /\ app.att[p[1]].slot # app.att[p[2]].slot
                /\ app.att[p[1]].id = app.att[p[2]].id}
    IN
    \A p \in SameModelPairs :
        LET c1 == app.att[p[1]].call
            c2 == app.att[p[2]].call
        IN /\ app.att[p[1]].st = "ended"
           /\ calls[c1].st \in {"resolved", "rejected"}
           /\ calls[c1].posted => TerminalHandled(c1)
           /\ \A w \in Workers :
                /\ \A m \in EventsOf(w, c1), n \in EventsOf(w, c2) : m < n
                /\ \A n \in EventsOf(w, c2) :
                      emitted[w][n].msg # "Already generating"

\* ------------------------------------- the application with failing loads

IncidentInit ==
    /\ Constructed
    /\ ops = MaxIncidentOps
    /\ probe = NoProbe
    /\ app = [NoApp EXCEPT !.compareMode = TRUE]

\* the user loads models, sends, compares and retries; a worker may raise
\* an uncaught error or fail to load its model
IncidentNext ==
    \/ \E id \in Primary : LoadModel(id)
    \/ \E id \in ModelIds : LoadCompareModel(id)
    \/ SendMessage
    \/ SendCompare
    \/ \E k \in Slots : RetryClicked(k)
    \/ MessageSaved
    \/ \E w \in Workers : WorkerStart(w)
    \/ \E w \in Workers : WorkerOnInit(w)
    \/ \E w \in Workers : WorkerLoaded(w)
    \/ \E w \in Workers : WorkerLoadFails(w)
    \/ \E w \in Workers : WorkerOnError(w)
    \/ \E w \in Workers : WorkerOnGenerate(w)
    \/ \E w \in Workers : EngineResolves(w)
    \/ \E w \in Workers : EngineRejects(w)
    \/ \E w \in Workers : HandleWorkerReady(w)
    \/ \E w \in Workers : LoadedInto(w)
    \/ \E i \in Inits : PolledInto(i)
    \/ \E w \in Workers : HandleGenerating(w)
    \/ \E w \in Workers : OnComplete(w)
    \/ \E w \in Workers : OnError(w)

IncidentSpec == IncidentInit /\ [][IncidentNext]_vars

\* C30: whatever the user does through the application (send, retry), no
\* worker takes a generate command from its queue while it is generating,
\* and no worker ever posts the 'Already generating' error
C30_AppNeverFindsWorkerBusy ==
    [][\A w \in Workers :
        /\ ~BusyReceive(w)
        /\ \A n \in 1..Len(emitted'[w]) : emitted'[w][n].msg # "Already generating"]_vars

\* ------------------------------------------------ the registry's invariants

\* C31: every model id in readyModels has a Worker in this.workers, so that
\* generate() on a ready model is never refused as 'not initialized'
C31_ReadyModelHasWorker ==
    \A id \in ModelIds :
        id \in readyModels
            => /\ workers[id] # 0
               /\ GenerateGate(id) # "not initialized"

\* the Workers created for model id that still run
Running(id) == {w \in Workers : rt[w].model = id /\ rt[w].st \in {"booting", "live"}}

\* C32: every promise initModel returned settles in the end, the polling
\* promise of a second caller too, also when the model is unloaded while it
\* loads; stated as what that needs in every state: no pending promise is
\* left with nothing that can settle it
C32_NoInitPromiseStranded ==
    LET
        \* something is left that can settle the pending promise i of initModel: for
        \* the promise of the call that created a Worker, that Worker's onerror or
        \* an event routed to callbacks that still hold its resolve and reject; for
        \* a polling promise, a registry state its interval acts on, or a Worker
        \* whose events or onerror can still change loadingModels and readyModels
        CanStillSettle(i) ==
            LET id == inits[i].id
            IN IF inits[i].kind = "poll"
               THEN \/ id \in readyModels
                    \/ id \notin loadingModels
                    \/ Running(id) # {}
               ELSE \E w \in Running(id) :
                        \/ rt[w].owner = i
                        \/ callbacks[id].init = i
    IN
    \A i \in Inits : inits[i].st = "pending" => CanStillSettle(i)

\* ------------------------------------------- stopping a comparison by hand

StopInit ==
    /\ Constructed
    /\ ops = MaxStopOps
    /\ probe = NoProbe
    /\ app = [NoApp EXCEPT !.compareMode = TRUE]

\* the user loads the two models, sends and presses stop; no guard trips
StopNext ==
    \/ \E id \in Primary : LoadModel(id)
    \/ \E id \in ModelIds : LoadCompareModel(id)
    \/ SendCompare
    \/ StopGeneration
    \/ MessageSaved
    \/ \E w \in Workers : WorkerStart(w)
    \/ \E w \in Workers : WorkerOnInit(w)
    \/ \E w \in Workers : WorkerLoaded(w)
    \/ \E w \in Workers : WorkerOnGenerate(w)
    \/ \E w \in Workers : WorkerOnAbort(w)
    \/ \E w \in Workers : DualStreamToken(w, Token)
    \/ \E w \in Workers : EngineResolves(w)
    \/ \E w \in Workers : HandleWorkerReady(w)
    \/ \E w \in Workers : LoadedInto(w)
    \/ \E i \in Inits : PolledInto(i)
    \/ \E w \in Workers : HandleGenerating(w)
    \/ \E w \in Workers : OnToken(w)
    \/ \E w \in Workers : OnComplete(w)
    \/ \E w \in Workers : OnAborted(w)

StopSpec == StopInit /\ [][StopNext]_vars

\* C33: once the user has stopped a comparison the run issues no further
\* generate call; with the same model on both sides, a first side that ended
\* by the user's stop is never followed by a second side
C33_StopEndsTheComparison ==
    LET
        \* the first side of the same-model comparison whose second side is b
        FirstOf(b) ==
            CHOOSE a \in Attempts :
                /\ app.att[a].role = "first"
                /\ app.att[a].history = app.att[b].history
                /\ app.att[a].other = app.att[b].slot
    IN
    \A b \in Attempts :
        (app.att[b].st # "unused" /\ app.att[b].role = "second")
            => ~StoppedByUser(FirstOf(b))

\* ----------------------------------------------- persisting the answers

\* C34: whenever state.isGenerating is false again, the assistant message of
\* every generation that completed has been written to the store
C34_PersistedBeforeIdle ==
    LET
        \* the assistant message of attempt a is in the store
        Persisted(a) == \E n \in 1..Len(app.store) : app.store[n].att = a
    IN
    LET
        \* attempt a ended with the content of a 'complete' event
        Completed(a) ==
            /\ app.att[a].st = "ended"
            /\ calls[app.att[a].call].st = "resolved"
            /\ calls[app.att[a].call].val # Null
    IN
    ~app.isGenerating => \A a \in Attempts : Completed(a) => Persisted(a)

\* --------------------------------------------- switching the conversation

Conversations == 1..(MaxAppOps + 1)

\* ui.clearMessages() / ui.renderMessages(): the message list is rebuilt and
\* the streaming elements that were in it are gone
Cleared(S) ==
    [k \in Slots |-> IF S[k].st = "none" THEN S[k]
                     ELSE [st |-> "removed", text |-> <<>>, retry |-> 0]]

\* createNewConversation(): the new conversation becomes the current one
CreateNewConversation ==
    /\ Stimulus
    /\ app.conversations + 1 \in Conversations
    /\ app' = [app EXCEPT !.conversations = @ + 1,
                          !.currentConversationId = app.conversations + 1,
                          !.slots = Cleared(@)]
    /\ last' = Quiet
    /\ UNCHANGED <<registry, inits, calls, rt, inbox, emitted, handled, probe>>

\* loadConversation(id) of a stored conversation that was not in compare mode
LoadConversation(cv) ==
    /\ Stimulus
    /\ cv <= app.conversations
    /\ ~app.compareMode
    /\ app' = [app EXCEPT !.currentConversationId = cv, !.slots = Cleared(@)]
    /\ last' = Quiet
    /\ UNCHANGED <<registry, inits, calls, rt, inbox, emitted, handled, probe>>

\* the store holds one conversation of an earlier session; none is current
ConvInit ==
    /\ Constructed
    /\ ops = MaxAppOps
    /\ probe = NoProbe
    /\ app = [NoApp EXCEPT !.conversations = 1]

ConvNext ==
    \/ \E id \in Primary : InitModelCreate(id)
    \/ SendMessage
    \/ CreateNewConversation
    \/ \E cv \in Conversations : LoadConversation(cv)
    \/ MessageSaved
    \/ \E w \in Workers : WorkerStart(w)
    \/ \E w \in Workers : WorkerOnInit(w)
    \/ \E w \in Workers : WorkerLoaded(w)
    \/ \E w \in Workers : WorkerOnGenerate(w)
    \/ \E w \in Workers : StreamToken(w, Token)
    \/ \E w \in Workers : EngineResolves(w)
    \/ \E w \in Workers : HandleWorkerReady(w)
    \/ \E w \in Workers : ModelLoaded(w)
    \/ \E w \in Workers : HandleGenerating(w)
    \/ \E w \in Workers : OnToken(w)
    \/ \E w \in Workers : OnComplete(w)

ConvSpec == ConvInit /\ [][ConvNext]_vars

\* C35: the assistant message of a completed generation is stored, or is
\* being stored, in the conversation whose history was the prompt
C35_AnswerStoredWithItsPrompt ==
    /\ \A n \in 1..Len(app.store) :
          app.store[n].conv = app.att[app.store[n].att].conv
    /\ \A n \in 1..Len(app.saving) :
          app.saving[n].conv = app.att[app.saving[n].att].conv

\* C36: no model id is in loadingModels and in readyModels at once
C36_LoadingAndReadyDisjoint == loadingModels \cap readyModels = {}

\* a model that was loading has become ready
C36_Witness ==
    \E i \in Inits :
        /\ inits[i].kind = "main"
        /\ inits[i].st = "resolved"
        /\ inits[i].id \in readyModels

\* -------------------------------------- recovering the content (pure)

Messages ==
    LET
        Contents == {<<>>, <<"x">>, <<"y">>}
    IN
    LET
        Roles == {"system", "user", "assistant"}
    IN
            [role : Roles, content : Contents]

RecoverInit ==
    LET
        Results ==
            LET
                MessageLists == UNION {[1..n -> Messages] : n \in 0..MaxMsgs}
            IN
                   {[shape |-> "none", msgs |-> <<>>], TextResult}
                      \cup {ListResult(msgs) : msgs \in MessageLists}
    IN
    /\ Constructed
    /\ ops = 0
    /\ app = NoApp
    /\ probe \in [result : Results, full : {<<>>, Token}, st : {"given"},
                   content : {<<>>}]

\* the .then of generator(...): the content of the 'complete' event
Recover ==
    /\ probe.st = "given"
    /\ probe' = [probe EXCEPT !.st = "recovered",
                              !.content = RecoverContent(probe.result, probe.full)]
    /\ UNCHANGED <<registry, inits, calls, rt, inbox, emitted, handled, ops, last,
                   app>>

RecoverNext == Recover

RecoverSpec == RecoverInit /\ [][RecoverNext]_vars

\* the positions of the assistant entries of the probe's result
AssistantAt ==
    {n \in 1..Len(probe.result.msgs) : probe.result.msgs[n].role = "assistant"}

\* C37: the content of 'complete' is the content of the assistant entry that
\* no other assistant entry follows, when the result is a list of messages
\* that has one; in every other case it is the accumulated streamed text
C37_ContentFromLastAssistantEntry ==
    probe.st = "recovered"
        => IF probe.result.shape = "list" /\ AssistantAt # {}
           THEN \E n \in AssistantAt :
                    /\ \A m \in AssistantAt : m <= n
                    /\ probe.content = probe.result.msgs[n].content
           ELSE probe.content = probe.full

\* two assistant entries with different contents, the later one recovered
C37_Witness ==
    /\ probe.st = "recovered"
    /\ probe.result.shape = "list"
    /\ \E m, n \in AssistantAt :
          /\ m < n
          /\ probe.result.msgs[m].content # probe.result.msgs[n].content
          /\ probe.content = probe.result.msgs[n].content
          /\ probe.content # probe.full

\* ------------------------------------ the worker's initModel, step by step
\* One worker, in a browser with or without navigator.gpu (rt[w].gpu), and
\* the init commands it is sent. Every call of initModel is a
\* run of its own (rt[w].runs): calls overlap when an init arrives while an
\* earlier one still awaits the probe or the download. The events of a run
\* carry its number in the call field.

DeviceFor(outcome) == IF outcome = "adapter" THEN "webgpu" ELSE "wasm"

Downloading(model, outcome) ==
    [phase |-> "downloading", model |-> model, probes |-> IF outcome = "no gpu" THEN 0 ELSE 1,
     outcome |-> outcome, device |-> DeviceFor(outcome), progress |-> 0]

LoadInit ==
    /\ workers = [id \in ModelIds |-> 0]
    /\ readyModels = {}
    /\ loadingModels = {}
    /\ callbacks = [id \in ModelIds |-> NoCallbacks]
    /\ inits = [i \in Inits |-> NoInit]
    /\ calls = [c \in Calls |-> NoCall]
    /\ \E gpu \in BOOLEAN :
          rt = [w \in Workers |-> IF w = 1
                                  THEN [NoWorker EXCEPT !.st = "live", !.gpu = gpu]
                                  ELSE NoWorker]
    /\ inbox = [w \in Workers |-> <<>>]
    /\ emitted = [w \in Workers |-> <<>>]
    /\ handled = [w \in Workers |-> 0]
    /\ last = Quiet
    /\ ops = MaxInitOps
    /\ probe = NoProbe
    /\ app = NoApp

\* worker.postMessage({ type: 'init', model: id })
PostInit(w, id) ==
    /\ Stimulus
    /\ rt[w].st = "live"
    /\ inbox' = [inbox EXCEPT ![w] = Append(@, Msg("init", id, 0, FALSE))]
    /\ last' = Quiet
    /\ UNCHANGED <<registry, inits, calls, rt, emitted, handled, outside>>

\* mutant: initModel without the check for the resident model
WorkerRunsInitAlways(w) ==
    /\ Receives(w, "init")
    /\ LET id == Head(inbox[w]).model
           r == Len(rt[w].runs) + 1
           lib == IF rt[w].pipeline THEN <<>>
                  ELSE <<Ev("status", r, <<>>, <<>>, "Loading AI library...")>>
       IN IF rt[w].gpu
          THEN /\ rt' = [rt EXCEPT ![w].pipeline = TRUE,
                                   ![w].runs = Append(@,
                                       [Downloading(id, "no gpu") EXCEPT !.phase = "probing",
                                                                          !.probes = 1])]
               /\ emitted' = [emitted EXCEPT ![w] = @ \o lib]
          ELSE /\ rt' = [rt EXCEPT ![w].pipeline = TRUE,
                                   ![w].runs = Append(@, Downloading(id, "no gpu"))]
               /\ emitted' = [emitted EXCEPT ![w] =
                                 @ \o lib \o <<Ev("status", r, <<>>, <<>>, "wasm")>>]
    /\ last' = Quiet
    /\ UNCHANGED <<registry, inits, calls, handled, ops, outside>>

\* case 'init': initModel(data.model), up to its first await that is not
\* over at once: the resident model answers 'ready'; else the library is
\* loaded (once) and, with navigator.gpu, the adapter is asked for; without
\* it the device stays 'wasm' and the status is sent
WorkerRunsInit(w) ==
    /\ Receives(w, "init")
    /\ LET id == Head(inbox[w]).model
           r == Len(rt[w].runs) + 1
           lib == IF rt[w].pipeline THEN <<>>
                  ELSE <<Ev("status", r, <<>>, <<>>, "Loading AI library...")>>
       IN IF rt[w].pipeline /\ rt[w].generator /\ rt[w].currentModel = id
          THEN /\ Emit(w, Ev("ready", 0, <<>>, <<>>, ""))
               /\ UNCHANGED rt
          ELSE IF rt[w].gpu
          THEN /\ rt' = [rt EXCEPT ![w].pipeline = TRUE,
                                   ![w].runs = Append(@,
                                       [Downloading(id, "no gpu") EXCEPT !.phase = "probing",
                                                                          !.probes = 1])]
               /\ emitted' = [emitted EXCEPT ![w] = @ \o lib]
          ELSE /\ rt' = [rt EXCEPT ![w].pipeline = TRUE,
                                   ![w].runs = Append(@, Downloading(id, "no gpu"))]
               /\ emitted' = [emitted EXCEPT ![w] =
                                 @ \o lib \o <<Ev("status", r, <<>>, <<>>, "wasm")>>]
    /\ last' = Quiet
    /\ UNCHANGED <<registry, inits, calls, handled, ops, outside>>

\* mutant: the status is not sent when the probe is over
ProbeReturnsSilently(w, r, outcome) ==
    /\ rt[w].st = "live"
    /\ r \in 1..Len(rt[w].runs)
    /\ rt[w].runs[r].phase = "probing"
    /\ rt' = [rt EXCEPT ![w].runs[r] = Downloading(@.model, outcome)]
    /\ UNCHANGED emitted
    /\ last' = Quiet
    /\ UNCHANGED <<registry, inits, calls, inbox, handled, ops, outside>>

\* await navigator.gpu.requestAdapter() is over (a throw is caught and
\* ignored); send('status', ... 'Downloading model (' + device + ')...')
ProbeReturns(w, r, outcome) ==
    /\ rt[w].st = "live"
    /\ r \in 1..Len(rt[w].runs)
    /\ rt[w].runs[r].phase = "probing"
    /\ rt' = [rt EXCEPT ![w].runs[r] = Downloading(@.model, outcome)]
    /\ Emit(w, Ev("status", r, <<>>, <<>>, DeviceFor(outcome)))
    /\ last' = Quiet
    /\ UNCHANGED <<registry, inits, calls, inbox, handled, ops, outside>>

\* progress_callback with status 'progress' or 'downloading'
DownloadProgress(w, r) ==
    /\ rt[w].st = "live"
    /\ r \in 1..Len(rt[w].runs)
    /\ rt[w].runs[r].phase = "downloading"
    /\ rt[w].runs[r].progress < MaxProgress
    /\ rt' = [rt EXCEPT ![w].runs[r].progress = @ + 1]
    /\ Emit(w, Ev("progress", r, <<>>, <<>>, ""))
    /\ last' = Quiet
    /\ UNCHANGED <<registry, inits, calls, inbox, handled, ops, outside>>

\* generator = await pipeline(...); currentModel = modelId; send('ready')
PipelineResolves(w, r) ==
    /\ rt[w].st = "live"
    /\ r \in 1..Len(rt[w].runs)
    /\ rt[w].runs[r].phase = "downloading"
    /\ rt' = [rt EXCEPT ![w].runs[r].phase = "ready",
                        ![w].generator = TRUE,
                        ![w].currentModel = rt[w].runs[r].model]
    /\ Emit(w, Ev("ready", r, <<>>, <<>>, rt[w].runs[r].device))
    /\ last' = Quiet
    /\ UNCHANGED <<registry, inits, calls, inbox, handled, ops, outside>>

\* await pipeline(...) throws: send('error')
PipelineRejects(w, r) ==
    /\ rt[w].st = "live"
    /\ r \in 1..Len(rt[w].runs)
    /\ rt[w].runs[r].phase = "downloading"
    /\ rt' = [rt EXCEPT ![w].runs[r].phase = "failed"]
    /\ Emit(w, Ev("error", r, <<>>, <<>>, "Failed to load model"))
    /\ last' = Quiet
    /\ UNCHANGED <<registry, inits, calls, inbox, handled, ops, outside>>

Runs == 1..MaxInitOps

LoadNext ==
    LET
        \* what navigator.gpu.requestAdapter() can do: return an adapter, return
        \* null, throw; "no gpu": navigator.gpu is missing and nothing is asked
        Probes == {"adapter", "null", "throws"}
    IN
    \/ \E w \in Workers, id \in ModelIds : PostInit(w, id)
    \/ \E w \in Workers : WorkerRunsInit(w)
    \/ \E w \in Workers, r \in Runs, outcome \in Probes : ProbeReturns(w, r, outcome)
    \/ \E w \in Workers, r \in Runs : DownloadProgress(w, r)
    \/ \E w \in Workers, r \in Runs : PipelineResolves(w, r)
    \/ \E w \in Workers, r \in Runs : PipelineRejects(w, r)

LoadSpec == LoadInit /\ [][LoadNext]_vars

\* C38: a worker that takes an init for the model it already holds posts
\* 'ready' and nothing else in that step, and nothing of its state changes:
\* no probe, no new load, no status or progress event, the same generator
C38_ResidentInitOnlyReemitsReady ==
    [][LET
           \* worker w takes from its queue an init for the model it holds
           ResidentInit(w) ==
               /\ rt[w].st = "live"
               /\ inbox[w] # <<>>
               /\ Head(inbox[w]).type = "init"
               /\ rt[w].generator
               /\ rt[w].currentModel = Head(inbox[w]).model
               /\ inbox'[w] = Tail(inbox[w])
       IN
       \A w \in Workers :
        ResidentInit(w)
            => /\ emitted'[w] = Append(emitted[w], Ev("ready", 0, <<>>, <<>>, ""))
               /\ rt'[w] = rt[w]]_vars

\* 'ready' was posted again for a model loaded earlier
C38_Witness ==
    \E w \in Workers :
        \E m, n \in 1..Len(emitted[w]) :
            /\ m < n
            /\ emitted[w][m].type = "ready" /\ emitted[w][m].call # 0
            /\ emitted[w][n].type = "ready" /\ emitted[w][n].call = 0
            /\ Len(rt[w].runs) = 1

\* the positions in worker w's event stream of the events of type t of run r
RunEvents(w, r, t) ==
    {n \in 1..Len(emitted[w]) : emitted[w][n].call = r /\ emitted[w][n].type = t}

\* the status events of run r that name a backend
BackendNamed(w, r) ==
    {n \in RunEvents(w, r, "status") : emitted[w][n].msg \in {"webgpu", "wasm"}}

\* C39: every load asks for the adapter at most once, and only where
\* navigator.gpu exists; the backend is webgpu exactly when an adapter came
\* back (wasm when none came, when the probe threw, when there is no gpu);
\* one status event names that backend and precedes every progress event
\* of the load, and the load's 'ready' carries the same backend
C39_BackendChosenOnceAndReported ==
    \A w \in Workers : \A r \in 1..Len(rt[w].runs) :
        LET run == rt[w].runs[r]
        IN /\ run.probes <= 1
           /\ run.probes = 1 => rt[w].gpu
           /\ run.phase # "probing"
                => /\ run.device = (IF run.outcome = "adapter" THEN "webgpu" ELSE "wasm")
                   /\ Cardinality(BackendNamed(w, r)) = 1
                   /\ \A n \in BackendNamed(w, r) :
                         /\ emitted[w][n].msg = run.device
                         /\ \A m \in RunEvents(w, r, "progress") : n < m
                         /\ \A m \in RunEvents(w, r, "ready") :
                               n < m /\ emitted[w][m].msg = run.device
           /\ run.phase = "probing"
                => /\ BackendNamed(w, r) = {}
                   /\ RunEvents(w, r, "progress") = {}
                   /\ RunEvents(w, r, "ready") = {}

\* the probe threw, the load fell back to wasm, reported progress and ended
\* with 'ready' on wasm
C39_Witness ==
    \E w \in Workers : \E r \in 1..Len(rt[w].runs) :
        /\ rt[w].runs[r].outcome = "throws"
        /\ rt[w].runs[r].phase = "ready"
        /\ RunEvents(w, r, "progress") # {}
        /\ \E m \in RunEvents(w, r, "ready") : emitted[w][m].msg = "wasm"

\* ------------------------------------------------------- the handshake

\* the coordinator posts a command of this type to worker w in this step
Posts(w, type) ==
    /\ Len(inbox'[w]) > Len(inbox[w])
    /\ inbox'[w][Len(inbox'[w])].type = type

\* C40: the coordinator posts init to a worker only in the step that
\* dispatches a 'worker-ready' event of that very worker, one init per such
\* event, and posts generate to a worker only after it has dispatched a
\* 'ready' event of that worker
C40_HandshakeBeforeCommands ==
    [][\A w \in Workers :
        /\ Posts(w, "init")
            => /\ Len(inbox'[w]) = Len(inbox[w]) + 1
               /\ handled[w] < Len(emitted[w])
               /\ emitted[w][handled[w] + 1].type = "worker-ready"
               /\ handled'[w] = handled[w] + 1
        /\ Posts(w, "generate")
            => \E n \in 1..handled[w] : emitted[w][n].type = "ready"]_vars

====
